---- MODULE Spec2Model ----
(***************************************************************************)
(* Model of the convex-navigator resolver: the project-info cache          *)
(* (resolver/pathResolver.ts), the project locator and the path codec      *)
(* (config.ts) and the definition scanner (functionFinder part of          *)
(* resolver/pathResolver.ts).                                              *)
(*                                                                         *)
(* Strings are sequences of one-character strings, so that prefix tests,   *)
(* splitting, extension stripping and substring search are computed the    *)
(* way the code computes them.                                             *)
(***************************************************************************)
EXTENDS Integers, Sequences, FiniteSets, TLC

VARIABLES
  \* ---- project-info cache (pathResolver.ts:12-36) ----
  cachedProjectInfo,  \* the cache slot: Null or a ProjectInfo object
  cacheTimestamp,     \* Date.now() of the call that filled the slot, or 0
  clock,              \* Date.now()
  ticks,              \* number of clock advances so far
  disk,               \* what a scan of the workspace finds right now
  calls,              \* in-flight getConvexProjectInfo calls
  detectCalls,        \* number of detectConvexProject invocations so far
  lastScan,           \* history: the last call that returned a scanned ProjectInfo
  cleared,            \* history: "no" clear yet, a clear is "pending" (no call
                      \* has started since), or a clear was "seen" by a call
  \* ---- cache invalidation events (pathResolver.ts:565-655, activate) ----
  watched,            \* the root whose files activate watches, or NoDir
  eventAt,            \* history: the calls started when the last event came
  \* ---- project locator (config.ts:53-124) ----
  fsFiles,            \* the files that exist on disk
  convexPath,         \* setting convexNavigator.convexPath
  workspaceFolders,   \* vscode.workspace.workspaceFolders (paths)
  dpc,                \* where detectConvexProject is
  dres,               \* what detectConvexProject returned
  seen,               \* history: what each rule saw when it was consulted
  \* ---- path codec (config.ts:130-174, pathResolver.ts:42-91) ----
  kProject,           \* the ProjectInfo getConvexProjectInfo hands the codec
  kExisting,          \* the files that exist on disk
  kFile,              \* computeApiPath's filePath, or NoStr
  kFn,                \* computeApiPath's functionName, or NoStr
  kIdent,             \* the identifier: computeApiPath's result or a given input
  kParsed,            \* fromApiPath's result
  kResolved,          \* resolveApiPath's result
  kpc,                \* which of the three has run
  \* ---- definition scanner (pathResolver.ts:167-251) ----
  sProject,           \* the ProjectInfo getConvexProjectInfo returns right now
  sFile,              \* findConvexFunctionsInFile's filePath, or NoStr
  sContent,           \* the text of the document
  sBinding,           \* the wrapper and generic the first binding was written with
  sCustom,            \* setting convexNavigator.customWrappers
  sReadable,          \* whether openTextDocument succeeds
  sLocalProject,      \* the scan's local projectInfo (line 211)
  sChanged,           \* history: the project changed during the scan
  sMatch,             \* the scan's local match
  sFunctions,         \* the scan's functions array, returned at the end
  sWrapper,           \* getFunctionType's argument, or NoStr
  sKind,              \* getFunctionType's result
  spc,                \* where the scan is
  \* ---- definition lookup at the cursor (pathResolver.ts:263-360) ----
  fProject,           \* the ProjectInfo getConvexProjectInfo returns right now
  fFile,              \* document.uri.fsPath
  fLines,             \* the lines of the document
  fPosition,          \* the cursor: line and character, from 0
  fMatch,             \* the lookup's local match
  fFunctions,         \* the lookup's functions array
  fResult,            \* what findConvexFunctionAtPosition returned
  fChanged,           \* history: the project changed during the lookup
  fpc,                \* where the lookup is
  \* ---- usage search (hoverProvider.ts:208-416) ----
  uProject,           \* the ProjectInfo getConvexProjectInfo returns
  uFrontendPaths,     \* setting convexNavigator.frontendPaths
  uFiles,             \* the files of the workspace: path and lines
  uApiPath,           \* searchForUsages' apiPath
  uToolMissing,       \* whether spawning rg fails
  uBroken,            \* the scope directories that cannot be read
  uLine,              \* a line to classify, or NoStr
  uHook,              \* the hook found on uLine
  uSearchPaths,       \* the search's local searchPaths
  uIndex,             \* the number of the scope being searched
  uUsages,            \* the search's usages array, returned at the end
  uOrder,             \* the order in which the scope's files are gone through
  uError,             \* the child's error event: none, pending, delivered
  uClose,             \* the child's close event: none, pending, delivered
  uPromise,           \* the promise of searchWithRipgrep
  uFallback,          \* fallbackSearch: none, running, finished; its results
  uLog,               \* history: per scope searched, what was used for it
  uChildren,          \* history: the scopes whose rg process runs (spawned, not closed)
  upc,                \* where the search is
  \* ---- requests for usages (hoverProvider.ts:427-558) ----
  rKind,              \* provideReferences ("provider") or findConvexUsagesCommand
  rTarget,            \* no active editor, no definition at the cursor, or one
  rInclude,           \* context.includeDeclaration
  rToken,             \* token.isCancellationRequested
  rCancelAt,          \* history: when the token was raised, relative to the search
  rOutcome,           \* what the request returned and what it showed
  rpc                 \* where the request is

cacheVars == <<cachedProjectInfo, cacheTimestamp, clock, ticks, disk, calls,
               detectCalls, lastScan, cleared>>

locVars == <<fsFiles, convexPath, workspaceFolders, dpc, dres, seen>>

codecVars == <<kProject, kExisting, kFile, kFn, kIdent, kParsed, kResolved, kpc>>

scanVars == <<sProject, sFile, sContent, sBinding, sCustom, sReadable,
              sLocalProject, sChanged, sMatch, sFunctions, sWrapper, sKind, spc>>

findVars == <<fProject, fFile, fLines, fPosition, fMatch, fFunctions, fResult,
              fChanged, fpc>>

searchVars == <<uProject, uFrontendPaths, uFiles, uApiPath, uToolMissing, uBroken,
                uLine, uHook, uSearchPaths, uIndex, uUsages, uOrder, uError,
                uClose, uPromise, uFallback, uLog, uChildren, upc>>

eventVars == <<watched, eventAt>>

requestVars == <<rKind, rTarget, rInclude, rToken, rCancelAt, rOutcome, rpc>>

vars == <<cacheVars, eventVars, locVars, codecVars, scanVars, findVars, searchVars,
          requestVars>>

\* What an action of one component leaves alone.
notCache == <<requestVars, eventVars, locVars, codecVars, scanVars, findVars, searchVars>>
notLoc == <<requestVars, eventVars, cacheVars, codecVars, scanVars, findVars, searchVars>>
notCodec == <<requestVars, eventVars, cacheVars, locVars, scanVars, findVars, searchVars>>
notScan == <<requestVars, eventVars, cacheVars, locVars, codecVars, findVars, searchVars>>
notFind == <<requestVars, eventVars, cacheVars, locVars, codecVars, scanVars, searchVars>>
notSearch == <<requestVars, eventVars, cacheVars, locVars, codecVars, scanVars, findVars>>

\* JavaScript's null, in the shape of a ProjectInfo so that it compares with one.
Null == [convexDir |-> "null", scan |-> 0]

NoDir == "none"
NoScan == [val |-> Null, start |-> 0, clean |-> FALSE]


(***************************************************************************)
(* Strings (sequences of characters) and node's posix path module          *)
(***************************************************************************)
\* String.prototype.startsWith, endsWith, includes
StartsWith(s, p) == Len(p) <= Len(s) /\ SubSeq(s, 1, Len(p)) = p
EndsWith(s, p) == Len(p) <= Len(s) /\ SubSeq(s, Len(s) - Len(p) + 1, Len(s)) = p
Includes(s, sub) ==
  \E i \in 1..(Len(s) - Len(sub) + 1) : SubSeq(s, i, i + Len(sub) - 1) = sub

\* String.prototype.split on a one-character separator
RECURSIVE Split(_, _)
Split(s, ch) ==
  IF \A i \in 1..Len(s) : s[i] # ch THEN <<s>>
  ELSE LET i == CHOOSE k \in 1..Len(s) :
                  s[k] = ch /\ \A j \in 1..(k - 1) : s[j] # ch
       IN <<SubSeq(s, 1, i - 1)>> \o Split(SubSeq(s, i + 1, Len(s)), ch)

\* Array.prototype.join
RECURSIVE Join(_, _)
Join(parts, sep) ==
  IF parts = <<>> THEN <<>>
  ELSE IF Len(parts) = 1 THEN parts[1]
  ELSE parts[1] \o sep \o Join(Tail(parts), sep)

Slash == <<"/">>
DotStr == <<".">>
DotDot == <<".", ".">>

\* The non-empty segments of a path.
Segments(p) == SelectSeq(Split(p, "/"), LAMBDA x : x # <<>>)

\* Segments with "." dropped and ".." applied (absolute paths: ".." at the
\* root stays at the root).
RECURSIVE Resolve(_, _)
Resolve(segs, acc) ==
  IF segs = <<>> THEN acc
  ELSE LET h == Head(segs)
       IN IF h = DotStr THEN Resolve(Tail(segs), acc)
          ELSE IF h = DotDot
               THEN Resolve(Tail(segs),
                            IF acc = <<>> THEN acc
                            ELSE SubSeq(acc, 1, Len(acc) - 1))
               ELSE Resolve(Tail(segs), Append(acc, h))

\* path.normalize of an absolute path; a trailing slash is kept.
PathNormalize(p) ==
  LET segs == Resolve(Segments(p), <<>>)
      body == Slash \o Join(segs, Slash)
  IN IF segs # <<>> /\ EndsWith(p, Slash) THEN body \o Slash ELSE body

\* path.join(a, b) with a absolute
PathJoin(a, b) == PathNormalize(IF b = <<>> THEN a ELSE a \o Slash \o b)

\* path.dirname of an absolute path
PathDirname(p) ==
  LET segs == Segments(p)
  IN IF Len(segs) <= 1 THEN Slash
     ELSE Slash \o Join(SubSeq(segs, 1, Len(segs) - 1), Slash)

\* path.relative(from, to), both absolute
PathRelative(from, to) ==
  LET f == Resolve(Segments(from), <<>>)
      t == Resolve(Segments(to), <<>>)
      Common(n) == n <= Len(f) /\ n <= Len(t) /\ SubSeq(f, 1, n) = SubSeq(t, 1, n)
      c == CHOOSE n \in 0..Len(f) : Common(n) /\ ~Common(n + 1)
  IN Join([i \in 1..(Len(f) - c) |-> DotDot] \o SubSeq(t, c + 1, Len(t)), Slash)

\* The names that occur in the paths and identifiers of the model.
S_w == <<"w">>
S_be == <<"b", "e">>
S_a == <<"a">>
S_b == <<"b">>
S_convex == <<"c", "o", "n", "v", "e", "x">>
S_generated == <<"_", "g", "e", "n", "e", "r", "a", "t", "e", "d">>
S_node_modules == <<"n", "o", "d", "e", "_", "m", "o", "d", "u", "l", "e", "s">>
S_convex_config_ts == <<"c", "o", "n", "v", "e", "x", ".", "c", "o", "n", "f", "i", "g", ".", "t", "s">>
S_api_ts == <<"a", "p", "i", ".", "t", "s">>
S_cx == <<"c", "x">>
S_cx2 == <<"c", "x", "2">>
S_o == <<"o">>
S_api == <<"a", "p", "i">>
S_internal == <<"i", "n", "t", "e", "r", "n", "a", "l">>
S_f == <<"f">>
S_x == <<"x">>
S_v_r == <<"v", ".", "r">>
E_ts == <<".", "t", "s">>
E_tsx == <<".", "t", "s", "x">>
E_js == <<".", "j", "s">>
E_jsx == <<".", "j", "s", "x">>
S_dash == <<"-">>

(***************************************************************************)
(* Project-info cache                                                      *)
(***************************************************************************)
CACHE_TTL_MS == 30000

\* Date.now() when the extension host starts running (milliseconds, > TTL).
EpochStart == 100000

MaxCalls == 3
MaxTicks == 3

CallIds == 1..MaxCalls
Dirs == {"dirA"}
TickSteps == {1, 29999}

\* A ProjectInfo object: the directory found and the identity of the object
\* (the call whose scan allocated it).
ProjectInfo(d, k) == [convexDir |-> d, scan |-> k]

\* A call that has not been made yet.  Calls are numbered in the order in
\* which they start.
\* now is the local of line 20; it is dead once the call has returned.
\* scanned: the call invoked detectConvexProject.
IdleCall == [pc |-> "idle", now |-> 0, scanned |-> FALSE, res |-> Null]

CacheInit ==
  /\ cachedProjectInfo = Null
  /\ cacheTimestamp = 0
  /\ clock = EpochStart
  /\ ticks = 0
  /\ disk \in Dirs \cup {NoDir}
  /\ calls = [c \in CallIds |-> IdleCall]
  /\ detectCalls = 0
  /\ lastScan = NoScan
  /\ cleared = "no"

\* pathResolver.ts:21, without the test of the slot.
CacheValid_AnySlot(now) == now - cacheTimestamp < CACHE_TTL_MS

\* pathResolver.ts:21, with the TTL shortened by one.
CacheValid_Short(now) ==
  /\ cachedProjectInfo # Null
  /\ now - cacheTimestamp < CACHE_TTL_MS - 1

\* pathResolver.ts:21  if (cachedProjectInfo && now - cacheTimestamp < CACHE_TTL_MS)
CacheValid(now) ==
  /\ cachedProjectInfo # Null
  /\ now - cacheTimestamp < CACHE_TTL_MS

\* config.ts:53-116 as seen by the cache: the object the scan of call k
\* resolves with, given what is on disk when it resolves.
detectConvexProject(k) ==
  IF disk = NoDir THEN Null ELSE ProjectInfo(disk, k)

\* pathResolver.ts:26  cacheTimestamp = now  (the now read at line 20)
NewTimestamp(c) == calls[c].now

\* What the history promises a call that starts now: the value of the last
\* scan, if that scan's call returned with no other call in flight, was not
\* followed by a clear, and started less than the TTL ago.
Promised ==
  IF /\ lastScan # NoScan
     /\ lastScan.clean
     /\ clock - lastScan.start < CACHE_TTL_MS
  THEN lastScan.val ELSE Null

\* A call that starts now is due to re-scan: it is the first call made after
\* a clearProjectCache, or the cached scan's timestamp is a TTL or more old.
Due ==
  \/ cleared = "pending"
  \/ cachedProjectInfo # Null /\ clock - cacheTimestamp >= CACHE_TTL_MS

\* pathResolver.ts:20-25: the synchronous part of getConvexProjectInfo, up to
\* the return of line 22 or the await of line 25.
getConvexProjectInfo_start(c) ==
  /\ calls[c].pc = "idle"
  /\ \A b \in CallIds : b < c => calls[b].pc # "idle"
  /\ IF CacheValid(clock)
     THEN /\ calls' = [calls EXCEPT ![c] =
                 [pc |-> "done", now |-> 0, scanned |-> FALSE,
                  res |-> cachedProjectInfo]]
          /\ UNCHANGED detectCalls
     ELSE /\ detectCalls' = detectCalls + 1
          /\ calls' = [calls EXCEPT ![c] =
                 [pc |-> "awaiting", now |-> clock, scanned |-> TRUE,
                  res |-> Null]]
  /\ cleared' = IF cleared = "pending" THEN "seen" ELSE cleared
  /\ UNCHANGED <<notCache, cachedProjectInfo, cacheTimestamp, clock, ticks, disk,
                 lastScan>>

\* pathResolver.ts:25-27: detectConvexProject has resolved; fill the slot and
\* return it.
getConvexProjectInfo_resume(c) ==
  /\ calls[c].pc = "awaiting"
  /\ LET p == detectConvexProject(c)
         alone == \A d \in CallIds \ {c} : calls[d].pc # "awaiting"
     IN /\ cachedProjectInfo' = p
        /\ cacheTimestamp' = NewTimestamp(c)
        /\ calls' = [calls EXCEPT ![c].pc = "done", ![c].now = 0, ![c].res = p]
        /\ lastScan' = IF p = Null THEN NoScan
                       ELSE [val |-> p, start |-> calls[c].now, clean |-> alone]
  /\ UNCHANGED <<notCache, clock, ticks, disk, detectCalls, cleared>>

\* pathResolver.ts:34-35: the two assignments of clearProjectCache.
ClearSlot ==
  /\ cachedProjectInfo' = Null
  /\ cacheTimestamp' = 0
  /\ lastScan' = NoScan
  /\ cleared' = "pending"

\* pathResolver.ts:33-36
clearProjectCache ==
  /\ ClearSlot
  /\ UNCHANGED <<notCache, clock, ticks, disk, calls, detectCalls>>

\* Time passes.
Tick(d) ==
  /\ ticks < MaxTicks
  /\ ticks' = ticks + 1
  /\ clock' = clock + d
  /\ UNCHANGED <<notCache, cachedProjectInfo, cacheTimestamp, disk, calls,
                 detectCalls, lastScan, cleared>>

\* The workspace changes on disk: the project moves, appears or disappears.
DiskChange(v) ==
  /\ v # disk
  /\ disk' = v
  /\ UNCHANGED <<notCache, cachedProjectInfo, cacheTimestamp, clock, ticks, calls,
                 detectCalls, lastScan, cleared>>

CacheNext ==
  \/ \E c \in CallIds : getConvexProjectInfo_start(c)
  \/ \E c \in CallIds : getConvexProjectInfo_resume(c)
  \/ clearProjectCache
  \/ \E d \in TickSteps : Tick(d)
  \/ \E v \in Dirs \cup {NoDir} : DiskChange(v)

(***************************************************************************)
(* Cache invalidation events: the watchers of activate                     *)
(***************************************************************************)
\* The calls started so far; calls are numbered in this order.
Started == Cardinality({c \in CallIds : calls[c].pc # "idle"})

\* pathResolver.ts:565-655, activate: the scan of line 572 sees the disk
\* as it is; with no project activate returns at line 580 and registers
\* nothing, otherwise the file watcher of lines 630-635 is made for the
\* root found.
EventInit ==
  /\ watched = disk
  /\ eventAt = -1

\* Lines 621-626: a change of a setting of convexNavigator.  The listener
\* exists if activate got past line 581.
ConfigChange ==
  /\ eventAt' = Started
  /\ watched' = watched
  /\ IF watched # NoDir
     THEN ClearSlot
     ELSE UNCHANGED <<cachedProjectInfo, cacheTimestamp, lastScan, cleared>>
  /\ UNCHANGED <<clock, ticks, disk, calls, detectCalls, locVars, codecVars,
                 scanVars, findVars, searchVars, requestVars>>

\* Lines 630-645: a source file is created or deleted in the definitions root
\* of now; the watcher tells of it if that is the root it was made for.
FileEvent ==
  /\ disk # NoDir
  /\ eventAt' = Started
  /\ watched' = watched
  /\ IF watched = disk
     THEN ClearSlot
     ELSE UNCHANGED <<cachedProjectInfo, cacheTimestamp, lastScan, cleared>>
  /\ UNCHANGED <<clock, ticks, disk, calls, detectCalls, locVars, codecVars,
                 scanVars, findVars, searchVars, requestVars>>

\* The setting convexNavigator.convexPath is pointed at the second place,
\* where a project is as well: a change of the configuration, after which a
\* scan finds the other root.
RootChange ==
  /\ disk \in Dirs
  /\ disk' = "dirB"
  /\ eventAt' = Started
  /\ watched' = watched
  /\ ClearSlot
  /\ UNCHANGED <<clock, ticks, calls, detectCalls, locVars, codecVars,
                 scanVars, findVars, searchVars, requestVars>>

\* The calls and the events with the clock standing still: every call falls
\* into the TTL window of the scan before it, so that a call scans again
\* only if the slot was emptied.
EventNext ==
  \/ \E c \in CallIds : getConvexProjectInfo_start(c)
  \/ \E c \in CallIds : getConvexProjectInfo_resume(c)
  \/ ConfigChange
  \/ FileEvent
  \/ RootChange
  \/ \E v \in Dirs \cup {NoDir} : DiskChange(v)

(***************************************************************************)
(* Claims about the cache                                                  *)
(***************************************************************************)

\* A step in which call c starts (pathResolver.ts:20), and one in which its
\* scan resolves and it returns (pathResolver.ts:25-27).
Starts(c) == calls[c].pc = "idle" /\ calls'[c].pc # "idle"
Resumes(c) == calls[c].pc = "awaiting" /\ calls'[c].pc = "done"

\* C1: once a call has returned a scanned ProjectInfo p (with no other call
\* in flight), every later call that starts less than CACHE_TTL_MS after
\* that call started, with no clearProjectCache in between, returns the
\* identical p and does not invoke detectConvexProject.
C1_CacheHitWithinTTL ==
  [][\A c \in CallIds :
       (Starts(c) /\ Promised # Null) =>
         /\ calls'[c].pc = "done"
         /\ calls'[c].res = Promised
         /\ ~calls'[c].scanned
         /\ detectCalls' = detectCalls]_vars

\* A call was served the object an earlier call had scanned, and the slot is
\* by now 29999 ms old or older.
C1_Witness ==
  \E b, c \in CallIds :
    /\ b < c
    /\ calls[b].pc = "done" /\ calls[b].scanned /\ calls[b].res # Null
    /\ calls[c].pc = "done" /\ ~calls[c].scanned
    /\ calls[c].res = calls[b].res
    /\ lastScan.clean /\ lastScan.val = calls[b].res
    /\ clock - lastScan.start >= CACHE_TTL_MS - 1

\* C2: the first call made after the TTL has expired or after
\* clearProjectCache has been called invokes detectConvexProject again, and
\* when its scan resolves it replaces the slot by the result and the
\* timestamp by the time the call started.
C2_RefreshAfterExpiryOrClear ==
  [][\A c \in CallIds :
       /\ (Starts(c) /\ Due) =>
            /\ calls'[c].pc = "awaiting"
            /\ calls'[c].scanned
            /\ detectCalls' = detectCalls + 1
       /\ Resumes(c) =>
            /\ cachedProjectInfo' = calls'[c].res
            /\ cacheTimestamp' = calls[c].now]_vars

\* C3: while no clearProjectCache has been called and the first TTL window
\* has not ended, detectConvexProject has been invoked at most once and all
\* calls that have returned returned the same value.
C3_OneScanPerWindow ==
  (cleared = "no" /\ clock - EpochStart < CACHE_TTL_MS) =>
    /\ detectCalls <= 1
    /\ \A b, c \in CallIds :
         (calls[b].pc = "done" /\ calls[c].pc = "done") =>
           calls[b].res = calls[c].res

\* Every call that has returned so far returned null.
NoneFound == \A b \in CallIds : calls[b].pc = "done" => calls[b].res = Null

\* C26: NotFound is never served from the cache.  While every scan so far
\* has returned null the slot is empty and every call that starts invokes
\* detectConvexProject, whatever the time since the previous call; a call
\* returns null only when its own scan returned null; and the call whose
\* scan finds a project returns that project and leaves it in the slot.
C26_NotFoundNotCached ==
  [][\A c \in CallIds :
       /\ NoneFound => cachedProjectInfo = Null
       /\ (Starts(c) /\ (NoneFound \/ cachedProjectInfo = Null)) =>
            /\ calls'[c].pc = "awaiting"
            /\ calls'[c].scanned
            /\ detectCalls' = detectCalls + 1
       /\ (Starts(c) /\ calls'[c].pc = "done") => calls'[c].res # Null
       /\ Resumes(c) =>
            /\ calls'[c].res = detectConvexProject(c)
            /\ cachedProjectInfo' = calls'[c].res]_vars

\* Two calls found nothing, each by its own scan, and the third, within the
\* first 30000 ms, found the project that has appeared.
C26_Witness ==
  /\ clock - EpochStart < CACHE_TTL_MS
  /\ \A b \in {1, 2} : /\ calls[b].pc = "done" /\ calls[b].scanned
                        /\ calls[b].res = Null
  /\ calls[3].pc = "done" /\ calls[3].scanned /\ calls[3].res # Null
  /\ cachedProjectInfo = calls[3].res
  /\ detectCalls = 3

\* C27: a clearProjectCache called while a call is suspended in its scan is
\* not undone by that scan: the first call that starts after the clear is
\* not served the result of a scan that started before the clear, it
\* invokes detectConvexProject.
C27_ClearNotUndone ==
  [][\A c \in CallIds :
       (Starts(c) /\ cleared = "pending") =>
         /\ calls'[c].scanned
         /\ ~\E b \in CallIds :
              /\ b < c /\ calls[b].scanned /\ calls[b].res # Null
              /\ calls'[c].res = calls[b].res]_vars

\* C24: after a change of the extension's settings, or after a source file
\* was created or deleted in the definitions root of the moment, the next
\* getConvexProjectInfo call invokes detectConvexProject and returns no
\* object cached before; also when the root is not the one of activation.
C24_EventInvalidates ==
  [][\A c \in CallIds :
       (Starts(c) /\ eventAt = c - 1) =>
         /\ calls'[c].pc = "awaiting"
         /\ calls'[c].scanned
         /\ detectCalls' = detectCalls + 1]_vars

(***************************************************************************)
(* Project locator: detectConvexProject (config.ts:53-124)                 *)
(***************************************************************************)
AbsPath(segs) == Slash \o Join(segs, Slash)

WsRoot == AbsPath(<<S_w>>)

\* The files that may exist in the workspace.
FileUniverse ==
  { AbsPath(<<S_w, S_be, S_convex_config_ts>>),
    AbsPath(<<S_w, S_a, S_convex_config_ts>>),
    AbsPath(<<S_w, S_a, S_convex, S_generated, S_api_ts>>),
    AbsPath(<<S_w, S_b, S_convex, S_generated, S_api_ts>>),
    AbsPath(<<S_w, S_node_modules, S_convex_config_ts>>) }

\* The values of the convexPath setting.
ConvexPathSettings == {<<>>, S_be}

\* findFiles returns at most this many results (config.ts:82, 101).
MaxResults == 5

NotFound == [found |-> FALSE, convexDir |-> <<>>, workspaceRoot |-> <<>>,
             configPath |-> <<>>, generatedApiPath |-> <<>>]

NothingSeen == [fs |-> {}, askedConfig |-> FALSE, config |-> <<>>,
                askedApi |-> FALSE, api |-> <<>>]

\* fs.existsSync: a file that exists, or a directory above one.
ExistsIn(files, p) ==
  \E f \in files :
    LET fs == Segments(f)
        ps == Segments(p)
    IN Len(ps) <= Len(fs) /\ SubSeq(fs, 1, Len(ps)) = ps

existsSync(p) == ExistsIn(fsFiles, p)

\* config.ts:121-124; undefined is the empty path
findFile(dir, filename) ==
  LET filePath == PathJoin(dir, filename)
  IN IF existsSync(filePath) THEN filePath ELSE <<>>

\* The glob "**/node_modules/**" (config.ts:81, 100)
InNodeModules(f) ==
  \E i \in 1..Len(Segments(f)) : Segments(f)[i] = S_node_modules

\* The glob "**/convex.config.ts" (config.ts:80)
IsConfigFile(f) ==
  LET segs == Segments(f) IN segs[Len(segs)] = S_convex_config_ts

\* The glob "**/convex/_generated/api.ts" (config.ts:99)
IsGeneratedApi(f) ==
  LET segs == Segments(f)
      n == Len(segs)
  IN /\ n >= 3
     /\ SubSeq(segs, n - 2, n) = <<S_convex, S_generated, S_api_ts>>

\* vscode.workspace.findFiles(include, "**/node_modules/**", 5): up to
\* MaxResults of the matching files, in an order the editor chooses.
findFiles(include) ==
  LET Matches(f) == IF include = "**/convex.config.ts" THEN IsConfigFile(f)
                    ELSE IsGeneratedApi(f)
      hits == {f \in fsFiles : Matches(f) /\ ~InNodeModules(f)}
      n == IF Cardinality(hits) < MaxResults THEN Cardinality(hits)
           ELSE MaxResults
  IN {r \in [1..n -> hits] : \A i, j \in 1..n : r[i] = r[j] => i = j}

\* config.ts:86, 105  configFiles[0], apiFiles[0]
FirstFound(files) == files[1]

\* config.ts:63-65 without the existsSync test.
OverrideUsable_Unchecked(convexDir) == convexPath # <<>>

\* config.ts:63-65  if (config.convexPath) { ... if (fs.existsSync(convexDir))
OverrideUsable(convexDir) == convexPath # <<>> /\ existsSync(convexDir)

LocInit ==
  /\ fsFiles \in SUBSET FileUniverse
  /\ convexPath \in ConvexPathSettings
  /\ workspaceFolders \in {<<>>, <<WsRoot>>}
  /\ dpc = "idle"
  /\ dres = NotFound
  /\ seen = NothingSeen

\* config.ts:54-83: up to the first return or the first await.
detect_start ==
  /\ dpc = "idle"
  /\ IF workspaceFolders = <<>>
     THEN dpc' = "done" /\ dres' = NotFound
     ELSE LET workspaceRoot == workspaceFolders[1]
              convexDir == PathJoin(workspaceRoot, convexPath)
          IN IF OverrideUsable(convexDir)
             THEN /\ dpc' = "done"
                  /\ dres' = [found |-> TRUE,
                              convexDir |-> convexDir,
                              workspaceRoot |-> workspaceRoot,
                              configPath |-> findFile(convexDir, S_convex_config_ts),
                              generatedApiPath |->
                                findFile(PathJoin(convexDir, S_generated), S_api_ts)]
             ELSE dpc' = "awaitConfig" /\ dres' = dres
  /\ seen' = [seen EXCEPT !.fs = fsFiles,
                          !.askedConfig = (dpc' = "awaitConfig")]
  /\ UNCHANGED <<notLoc, fsFiles, convexPath, workspaceFolders>>

\* config.ts:79-102: the search for convex.config.ts has resolved.
detect_afterConfig ==
  /\ dpc = "awaitConfig"
  /\ \E configFiles \in findFiles("**/convex.config.ts") :
       /\ IF Len(configFiles) > 0
          THEN LET configPath == FirstFound(configFiles)
                   convexDir == PathDirname(configPath)
               IN /\ dpc' = "done"
                  /\ dres' = [found |-> TRUE,
                              convexDir |-> convexDir,
                              workspaceRoot |-> workspaceFolders[1],
                              configPath |-> configPath,
                              generatedApiPath |->
                                findFile(PathJoin(convexDir, S_generated), S_api_ts)]
          ELSE dpc' = "awaitApi" /\ dres' = dres
       /\ seen' = [seen EXCEPT !.config = configFiles,
                               !.askedApi = (dpc' = "awaitApi")]
  /\ UNCHANGED <<notLoc, fsFiles, convexPath, workspaceFolders>>

\* config.ts:98-115: the search for convex/_generated/api.ts has resolved.
detect_afterApi ==
  /\ dpc = "awaitApi"
  /\ \E apiFiles \in findFiles("**/convex/_generated/api.ts") :
       /\ IF Len(apiFiles) > 0
          THEN LET apiPath == FirstFound(apiFiles)
                   convexDir == PathDirname(PathDirname(apiPath))
               IN dres' = [found |-> TRUE,
                           convexDir |-> convexDir,
                           workspaceRoot |-> workspaceFolders[1],
                           configPath |-> <<>>,
                           generatedApiPath |-> apiPath]
          ELSE dres' = NotFound
       /\ seen' = [seen EXCEPT !.api = apiFiles]
  /\ dpc' = "done"
  /\ UNCHANGED <<notLoc, fsFiles, convexPath, workspaceFolders>>

\* A file is created or deleted while the scan is under way.
FsCreate(f) ==
  /\ dpc \in {"awaitConfig", "awaitApi"}
  /\ f \notin fsFiles
  /\ fsFiles' = fsFiles \cup {f}
  /\ UNCHANGED <<notLoc, convexPath, workspaceFolders, dpc, dres, seen>>

FsDelete(f) ==
  /\ dpc \in {"awaitConfig", "awaitApi"}
  /\ f \in fsFiles
  /\ fsFiles' = fsFiles \ {f}
  /\ UNCHANGED <<notLoc, convexPath, workspaceFolders, dpc, dres, seen>>

LocNext ==
  \/ detect_start
  \/ detect_afterConfig
  \/ detect_afterApi
  \/ \E f \in FileUniverse : FsCreate(f)
  \/ \E f \in FileUniverse : FsDelete(f)

\* The directory a path lies in: the path up to its last slash.
ParentOf(p) ==
  LET k == CHOOSE i \in 1..Len(p) :
             p[i] = "/" /\ \A j \in (i + 1)..Len(p) : p[j] # "/"
  IN SubSeq(p, 1, k - 1)

\* C8: resolution order, first success wins: the override directory if it is
\* set and exists; otherwise the directory of the first found config file;
\* otherwise the grandparent of the first found generated index file;
\* otherwise NotFound; and no later rule is consulted once one succeeds.
C8_ResolutionOrder ==
  (dpc = "done" /\ workspaceFolders # <<>>) =>
    LET overrideDir == WsRoot \o Slash \o convexPath
    IN IF convexPath # <<>> /\ ExistsIn(seen.fs, overrideDir)
       THEN /\ dres.found /\ dres.convexDir = overrideDir
            /\ ~seen.askedConfig /\ ~seen.askedApi
       ELSE /\ seen.askedConfig
            /\ IF seen.config # <<>>
               THEN /\ dres.found
                    /\ dres.convexDir = ParentOf(seen.config[1])
                    /\ ~seen.askedApi
               ELSE /\ seen.askedApi
                    /\ IF seen.api # <<>>
                       THEN /\ dres.found
                            /\ dres.convexDir = ParentOf(ParentOf(seen.api[1]))
                       ELSE ~dres.found

\* The override was set but its directory did not exist, two config files
\* were found, and the scan took the directory of the first.
C8_Witness ==
  /\ dpc = "done" /\ workspaceFolders # <<>>
  /\ convexPath # <<>>
  /\ ~ExistsIn(seen.fs, WsRoot \o Slash \o convexPath)
  /\ Len(seen.config) = 2
  /\ dres.convexDir = ParentOf(seen.config[1])

(***************************************************************************)
(* Path codec: computeApiPath, fromApiPath, resolveApiPath                 *)
(***************************************************************************)
MaxDepth == 2
MaxTokens == 4

\* null where a string is expected
NoStr == <<"<null>">>

\* null where fromApiPath's or resolveApiPath's object is expected
NoParse == [ok |-> FALSE, modulePath |-> <<>>, functionName |-> <<>>]
NoTarget == [ok |-> FALSE, filePath |-> <<>>, functionName |-> <<>>]

\* All sequences over S of length 1..n.
SeqsUpTo(S, n) == UNION {[1..k -> S] : k \in 1..n}

\* All concatenations of 1..n tokens of S.
Concats(S, n) ==
  LET RECURSIVE Flat(_)
      Flat(q) == IF q = <<>> THEN <<>> ELSE Head(q) \o Flat(Tail(q))
  IN {Flat(q) : q \in SeqsUpTo(S, n)}

\* pathResolver.ts:79
Extensions == <<E_ts, E_tsx, E_js, E_jsx>>

CodecRoot == AbsPath(<<S_w, S_cx>>)

\* Directory and file names under the root; one of them has a dot in it.
PathNames == {S_a, S_api, S_internal, S_v_r}
FnNames == {S_f, S_api, S_x}

FilesUnderRoot ==
  {CodecRoot \o Slash \o Join(q, Slash) \o Extensions[e] :
     q \in SeqsUpTo(PathNames, MaxDepth), e \in 1..Len(Extensions)}

\* Files that are not in the root: in a sibling directory whose name starts
\* with the root's name, in another directory, and above the root.
FilesOutsideRoot ==
  { AbsPath(<<S_w, S_cx2, S_a>>) \o E_ts,
    AbsPath(<<S_w, S_o, S_a>>) \o E_ts,
    AbsPath(<<S_w, S_a>>) \o E_ts }

\* Identifier strings handed to the decoder: every concatenation of up to
\* MaxTokens of these tokens.
IdentTokens == {S_api, S_internal, S_x, DotStr, S_dash}
InputIdents == Concats(IdentTokens, MaxTokens)

\* The files on disk when the decoder is given an input string.
InputDisk ==
  { CodecRoot \o Slash \o S_x \o E_ts,
    CodecRoot \o Slash \o S_x \o Slash \o S_x \o E_tsx,
    CodecRoot \o Slash \o E_ts }

\* The same file with each of the extensions.
Siblings(f) ==
  LET stem == SubSeq(f, 1, Len(f) - Len(CHOOSE e \in {E_ts, E_tsx, E_js, E_jsx} : EndsWith(f, e)))
  IN {stem \o Extensions[e] : e \in 1..Len(Extensions)}

\* config.ts:136  relative.replace(/\.(ts|tsx|js|jsx)$/, "")
StripExtension(s) ==
  IF \E e \in 1..Len(Extensions) : EndsWith(s, Extensions[e])
  THEN LET e == CHOOSE e \in 1..Len(Extensions) : EndsWith(s, Extensions[e])
       IN SubSeq(s, 1, Len(s) - Len(Extensions[e]))
  ELSE s

\* config.ts:130-137
getRelativeConvexPath(filePath, convexDir) ==
  StripExtension(PathRelative(convexDir, filePath))

\* config.ts:143-152 (path.sep is "/")
toApiPath(filePath, functionName, convexDir) ==
  LET relativePath == getRelativeConvexPath(filePath, convexDir)
      modulePath == Join(Split(relativePath, "/"), DotStr)
  IN modulePath \o DotStr \o functionName

\* pathResolver.ts:52, accepting only the files directly in the directory.
InsideConvexDir_Direct(filePath, convexDir) ==
  PathDirname(filePath) = convexDir

\* pathResolver.ts:52  filePath.startsWith(projectInfo.convexDir)
InsideConvexDir(filePath, convexDir) == StartsWith(filePath, convexDir)

\* pathResolver.ts:42-58
computeApiPath(projectInfo, filePath, functionName) ==
  IF ~projectInfo.found THEN NoStr
  ELSE IF ~InsideConvexDir(filePath, projectInfo.convexDir) THEN NoStr
  ELSE S_api \o DotStr \o toApiPath(filePath, functionName, projectInfo.convexDir)

\* config.ts:163, removing every leading namespace token.
RECURSIVE StripNamespace_All(_)
StripNamespace_All(apiPath) ==
  IF StartsWith(apiPath, S_api \o DotStr)
  THEN StripNamespace_All(SubSeq(apiPath, Len(S_api) + 2, Len(apiPath)))
  ELSE IF StartsWith(apiPath, S_internal \o DotStr)
  THEN StripNamespace_All(SubSeq(apiPath, Len(S_internal) + 2, Len(apiPath)))
  ELSE apiPath

\* config.ts:163  apiPath.replace(/^(api|internal)\./, "")
StripNamespace(apiPath) ==
  IF StartsWith(apiPath, S_api \o DotStr)
  THEN SubSeq(apiPath, Len(S_api) + 2, Len(apiPath))
  ELSE IF StartsWith(apiPath, S_internal \o DotStr)
  THEN SubSeq(apiPath, Len(S_internal) + 2, Len(apiPath))
  ELSE apiPath

\* config.ts:171, joining with the identifier's own separator.
ModulePathOf_Dotted(parts) == Join(parts, DotStr)

\* config.ts:171  parts.join("/")
ModulePathOf(parts) == Join(parts, Slash)

\* config.ts:158-174
fromApiPath(apiPath) ==
  LET withoutPrefix == StripNamespace(apiPath)
      parts == Split(withoutPrefix, ".")
  IN IF Len(parts) < 2 THEN NoParse
     ELSE [ok |-> TRUE,
           modulePath |-> ModulePathOf(SubSeq(parts, 1, Len(parts) - 1)),
           functionName |-> parts[Len(parts)]]

\* pathResolver.ts:64-91, returning the last of the existing candidates.
resolveApiPath_Last(projectInfo, existing, apiPath) ==
  IF ~projectInfo.found THEN NoTarget
  ELSE LET parsed == fromApiPath(apiPath)
           FullPath(e) == PathJoin(projectInfo.convexDir,
                                   parsed.modulePath \o Extensions[e])
           Hits == {e \in 1..Len(Extensions) : ExistsIn(existing, FullPath(e))}
       IN IF ~parsed.ok THEN NoTarget
          ELSE IF Hits = {} THEN NoTarget
          ELSE LET e == CHOOSE e \in Hits : \A d \in Hits : d <= e
               IN [ok |-> TRUE, filePath |-> FullPath(e),
                   functionName |-> parsed.functionName]

\* pathResolver.ts:64-91
resolveApiPath(projectInfo, existing, apiPath) ==
  IF ~projectInfo.found THEN NoTarget
  ELSE LET parsed == fromApiPath(apiPath)
           FullPath(e) == PathJoin(projectInfo.convexDir,
                                   parsed.modulePath \o Extensions[e])
           Hits == {e \in 1..Len(Extensions) : ExistsIn(existing, FullPath(e))}
       IN IF ~parsed.ok THEN NoTarget
          ELSE IF Hits = {} THEN NoTarget
          ELSE LET e == CHOOSE e \in Hits : \A d \in Hits : e <= d
               IN [ok |-> TRUE, filePath |-> FullPath(e),
                   functionName |-> parsed.functionName]

FoundProject == [found |-> TRUE, convexDir |-> CodecRoot, workspaceRoot |-> WsRoot,
                 configPath |-> <<>>, generatedApiPath |-> <<>>]

\* Either a file and a function name to encode, or an identifier to decode.
CodecInit ==
  /\ kProject \in {FoundProject, NotFound}
  /\ kParsed = NoParse
  /\ kResolved = NoTarget
  /\ kpc = "start"
  /\ \/ /\ kFile \in FilesUnderRoot \cup FilesOutsideRoot
        /\ kFn \in FnNames
        /\ kIdent = NoStr
        /\ kExisting \in {{}, {kFile}} \cup
             {{kFile, g} : g \in IF kFile \in FilesUnderRoot THEN Siblings(kFile) ELSE {kFile}}
     \/ /\ kFile = NoStr
        /\ kFn = NoStr
        /\ kIdent \in InputIdents
        /\ kExisting \in {{}, InputDisk}

\* A caller computes the identifier of a definition.
Encode ==
  /\ kpc = "start"
  /\ kFile # NoStr
  /\ kIdent' = computeApiPath(kProject, kFile, kFn)
  /\ kpc' = "ident"
  /\ UNCHANGED <<notCodec, kProject, kExisting, kFile, kFn, kParsed, kResolved>>

\* A caller decodes the identifier it holds.
Decode ==
  /\ \/ kpc = "ident" /\ kIdent # NoStr
     \/ kpc = "start" /\ kFile = NoStr
  /\ kParsed' = fromApiPath(kIdent)
  /\ kpc' = "parsed"
  /\ UNCHANGED <<notCodec, kProject, kExisting, kFile, kFn, kIdent, kResolved>>

\* A caller resolves the identifier it holds to a file.
ResolveIdent ==
  /\ kpc = "parsed"
  /\ kResolved' = resolveApiPath(kProject, kExisting, kIdent)
  /\ kpc' = "resolved"
  /\ UNCHANGED <<notCodec, kProject, kExisting, kFile, kFn, kIdent, kParsed>>

CodecNext == Encode \/ Decode \/ ResolveIdent

(***************************************************************************)
(* Claims about the codec                                                  *)
(***************************************************************************)
\* The file lies in the root directory: the root's segments are a proper
\* prefix of the file's.
LiesUnder(f, root) ==
  LET fs == Segments(f)
      rs == Segments(root)
  IN Len(rs) < Len(fs) /\ \A i \in 1..Len(rs) : fs[i] = rs[i]

CountOf(s, ch) == Cardinality({i \in 1..Len(s) : s[i] = ch})

\* The part of the file's path below the root has no dot besides the one of
\* the extension.
NoExtraDots(f, root) ==
  CountOf(SubSeq(f, Len(root) + 1, Len(f)), ".") = 1

\* C4: round trip: for a file f under the root whose components have no dot
\* besides the extension and a name n without dots, decoding the identifier
\* computeApiPath(f, n) gives functionName n and a modulePath such that
\* root/modulePath plus one of the four extensions is f; also when a
\* component is named api or internal.
C4_RoundTrip ==
  (/\ kpc \in {"parsed", "resolved"}
   /\ kFile # NoStr /\ kProject.found
   /\ LiesUnder(kFile, kProject.convexDir)
   /\ NoExtraDots(kFile, kProject.convexDir)
   /\ CountOf(kFn, ".") = 0) =>
     /\ kParsed.ok
     /\ kParsed.functionName = kFn
     /\ \E e \in 1..Len(Extensions) :
          kProject.convexDir \o Slash \o kParsed.modulePath \o Extensions[e] = kFile

\* The file api/internal.tsx with function name api made the round trip.
C4_Witness ==
  /\ kpc = "parsed"
  /\ kFile = CodecRoot \o Slash \o S_api \o Slash \o S_internal \o E_tsx
  /\ kFn = S_api
  /\ kParsed.ok
  /\ kParsed.modulePath = S_api \o Slash \o S_internal

\* The identifier with at most one leading namespace token removed.
AfterNamespace(s) ==
  LET apiDot == <<"a", "p", "i", ".">>
      internalDot == <<"i", "n", "t", "e", "r", "n", "a", "l", ".">>
      Cut(p) == [i \in 1..(Len(s) - Len(p)) |-> s[i + Len(p)]]
  IN IF Len(s) >= 4 /\ [i \in 1..4 |-> s[i]] = apiDot THEN Cut(apiDot)
     ELSE IF Len(s) >= 9 /\ [i \in 1..9 |-> s[i]] = internalDot THEN Cut(internalDot)
     ELSE s

\* C5: with at most one leading namespace token removed, the identifier is
\* split on "."; the result is null exactly when fewer than 2 segments
\* remain (there is no "." left); otherwise functionName is what follows the
\* last "." and modulePath is what precedes it with every "." turned into
\* the path separator.
C5_Decode ==
  (kpc \in {"parsed", "resolved"}) =>
    LET rest == AfterNamespace(kIdent)
        dots == {i \in 1..Len(rest) : rest[i] = "."}
    IN IF dots = {} THEN kParsed = NoParse
       ELSE LET last == CHOOSE i \in dots : \A j \in dots : j <= i
            IN /\ kParsed.ok
               /\ kParsed.functionName = [i \in 1..(Len(rest) - last) |-> rest[i + last]]
               /\ kParsed.modulePath =
                    [i \in 1..(last - 1) |-> IF rest[i] = "." THEN "/" ELSE rest[i]]
               /\ CountOf(kParsed.modulePath, ".") = 0

\* The identifier api.internal.a.x was decoded to module internal/a, function
\* x: one namespace token was removed, the segment named internal stayed.
C5_Witness ==
  /\ kpc = "parsed"
  /\ kIdent = S_api \o DotStr \o S_internal \o DotStr \o S_a \o DotStr \o S_x
  /\ kParsed.ok
  /\ kParsed.modulePath = S_internal \o Slash \o S_a
  /\ kParsed.functionName = S_x

\* C6: when a project is located, computeApiPath returns a non-empty
\* identifier that starts with "api." for every file under the root, and
\* returns null only for a file that does not lie under the root.
C6_EncodeFailsOnlyOutside ==
  (kpc # "start" /\ kFile # NoStr /\ kProject.found) =>
    /\ LiesUnder(kFile, kProject.convexDir) =>
         /\ kIdent # NoStr
         /\ Len(kIdent) > 4
         /\ SubSeq(kIdent, 1, 4) = <<"a", "p", "i", ".">>
    /\ kIdent = NoStr => ~LiesUnder(kFile, kProject.convexDir)

\* A file two directories below the root was encoded.
C6_Witness ==
  /\ kpc = "ident"
  /\ kProject.found
  /\ kFile = CodecRoot \o Slash \o S_a \o Slash \o S_api \o E_js
  /\ kIdent = S_api \o DotStr \o S_a \o DotStr \o S_api \o DotStr \o kFn

\* A non-empty string of word characters [A-Za-z0-9_]; the model's strings
\* are made of letters, digits, ".", "/", "-", "_".
IsWord(s) == s # <<>> /\ \A i \in 1..Len(s) : s[i] \notin {".", "/", "-"}

\* The wire form namespace(.segment)+.functionName
WireForm(s) ==
  LET parts == Split(s, ".")
  IN /\ Len(parts) >= 3
     /\ parts[1] \in {S_api, S_internal}
     /\ \A i \in 1..Len(parts) : IsWord(parts[i])

\* C7: for every input string that is not of the wire form, fromApiPath
\* returns null and resolveApiPath returns null.
C7_MalformedRejected ==
  (kpc = "resolved" /\ ~WireForm(kIdent)) =>
    /\ kParsed = NoParse
    /\ kResolved = NoTarget

\* The round trip through resolveApiPath has been made for a file under the
\* root whose components have no dot besides the extension.
RoundTripMade ==
  /\ kpc = "resolved"
  /\ kFile # NoStr /\ kProject.found
  /\ LiesUnder(kFile, kProject.convexDir)
  /\ NoExtraDots(kFile, kProject.convexDir)
  /\ CountOf(kFn, ".") = 0

\* The number of the file's extension in the list .ts, .tsx, .js, .jsx.
ExtensionOf(f) == CHOOSE e \in 1..Len(Extensions) : EndsWith(f, Extensions[e])

\* The file and its siblings that exist.
Candidates == Siblings(kFile) \cap kExisting

\* C30 as stated: for an existing file f under the root and a name n,
\* resolveApiPath(computeApiPath(f, n)) returns f and n, also when a sibling
\* of f with another of the four extensions exists; it returns null when no
\* candidate file exists.
C30_FileRoundTrip ==
  RoundTripMade =>
    /\ kFile \in kExisting =>
         kResolved = [ok |-> TRUE, filePath |-> kFile, functionName |-> kFn]
    /\ Candidates = {} => kResolved = NoTarget

\* C30 amended: resolveApiPath(computeApiPath(f, n)) returns n and, of f and
\* its siblings that exist, the file whose extension comes first in the
\* order .ts, .tsx, .js, .jsx; this is f when no sibling with an earlier
\* extension exists; it returns null when no candidate file exists.
C30_FileRoundTrip_Amended ==
  RoundTripMade =>
    /\ Candidates # {} =>
         /\ kResolved.ok
         /\ kResolved.functionName = kFn
         /\ kResolved.filePath \in Candidates
         /\ \A g \in Candidates : ExtensionOf(kResolved.filePath) <= ExtensionOf(g)
    /\ (/\ kFile \in kExisting
        /\ \A g \in Candidates : ExtensionOf(kFile) <= ExtensionOf(g)) =>
         kResolved = [ok |-> TRUE, filePath |-> kFile, functionName |-> kFn]
    /\ Candidates = {} => kResolved = NoTarget

\* a.tsx was encoded while a.ts exists beside it: the round trip ends at a.ts.
C30_Witness ==
  /\ RoundTripMade
  /\ kFile = CodecRoot \o Slash \o S_a \o E_tsx
  /\ kExisting = {kFile, CodecRoot \o Slash \o S_a \o E_ts}
  /\ kResolved = [ok |-> TRUE, filePath |-> CodecRoot \o Slash \o S_a \o E_ts,
                  functionName |-> kFn]

(***************************************************************************)
(* Definition scanner: buildFunctionPattern, getFunctionType,              *)
(* findConvexFunctionsInFile (pathResolver.ts:167-251)                     *)
(***************************************************************************)
W_query == <<"q", "u", "e", "r", "y">>
W_mutation == <<"m", "u", "t", "a", "t", "i", "o", "n">>
W_action == <<"a", "c", "t", "i", "o", "n">>
W_internalQuery == <<"i", "n", "t", "e", "r", "n", "a", "l", "Q", "u", "e", "r", "y">>
W_internalMutation == <<"i", "n", "t", "e", "r", "n", "a", "l", "M", "u", "t", "a", "t", "i", "o", "n">>
W_internalAction == <<"i", "n", "t", "e", "r", "n", "a", "l", "A", "c", "t", "i", "o", "n">>
S_internalquery == <<"i", "n", "t", "e", "r", "n", "a", "l", "q", "u", "e", "r", "y">>
S_internalmutation == <<"i", "n", "t", "e", "r", "n", "a", "l", "m", "u", "t", "a", "t", "i", "o", "n">>
S_internalaction == <<"i", "n", "t", "e", "r", "n", "a", "l", "a", "c", "t", "i", "o", "n">>
S_Internal == <<"I", "n", "t", "e", "r", "n", "a", "l">>
S_Query == <<"Q", "u", "e", "r", "y">>
S_Mutation == <<"M", "u", "t", "a", "t", "i", "o", "n">>
S_Action == <<"A", "c", "t", "i", "o", "n">>
S_authedZod == <<"a", "u", "t", "h", "e", "d", "Z", "o", "d">>
S_doSomething == <<"d", "o", "S", "o", "m", "e", "t", "h", "i", "n", "g">>
S_trans == <<"t", "r", "a", "n", "s">>
S_myWrap == <<"m", "y", "W", "r", "a", "p">>
S_queryX == <<"q", "u", "e", "r", "y", "X">>
S_export == <<"e", "x", "p", "o", "r", "t">>
S_const == <<"c", "o", "n", "s", "t">>
S_T == <<"T">>

UpperCase == <<"A", "B", "C", "D", "E", "F", "G", "H", "I", "J", "K", "L", "M", "N", "O", "P", "Q", "R", "S", "T", "U", "V", "W", "X", "Y", "Z">>
LowerCase == <<"a", "b", "c", "d", "e", "f", "g", "h", "i", "j", "k", "l", "m", "n", "o", "p", "q", "r", "s", "t", "u", "v", "w", "x", "y", "z">>
Digits == {"0", "1", "2", "3", "4", "5", "6", "7", "8", "9"}

\* the regex classes \w and \s
WordChars == {UpperCase[i] : i \in 1..26} \cup {LowerCase[i] : i \in 1..26}
             \cup Digits \cup {"_"}
SpaceChars == {" ", "\n", "\t"}

\* String.prototype.toLowerCase
ToLowerCase(s) ==
  [i \in 1..Len(s) |->
     IF \E k \in 1..26 : UpperCase[k] = s[i]
     THEN LowerCase[CHOOSE k \in 1..26 : UpperCase[k] = s[i]]
     ELSE s[i]]

\* config.ts:9-16
DEFAULT_CONVEX_WRAPPERS ==
  <<W_query, W_mutation, W_action, W_internalQuery, W_internalMutation,
    W_internalAction>>

\* The built-in wrappers alone, the setting ignored.
getAllWrappers_DefaultsOnly(customWrappers) == DEFAULT_CONVEX_WRAPPERS

\* config.ts:45-48
getAllWrappers(customWrappers) == DEFAULT_CONVEX_WRAPPERS \o customWrappers

\* pathResolver.ts:180-203, testing the plain names before the internal ones.
getFunctionType_PlainFirst(wrapper) ==
  LET lowerWrapper == ToLowerCase(wrapper)
  IN IF Includes(lowerWrapper, W_query) THEN "query"
     ELSE IF Includes(lowerWrapper, W_mutation) THEN "mutation"
     ELSE IF Includes(lowerWrapper, W_action) THEN "action"
     ELSE IF Includes(lowerWrapper, S_internalquery) THEN "internalQuery"
     ELSE IF Includes(lowerWrapper, S_internalmutation) THEN "internalMutation"
     ELSE IF Includes(lowerWrapper, S_internalaction) THEN "internalAction"
     ELSE "unknown"

\* pathResolver.ts:180-203
getFunctionType(wrapper) ==
  LET lowerWrapper == ToLowerCase(wrapper)
  IN IF Includes(lowerWrapper, S_internalquery) THEN "internalQuery"
     ELSE IF Includes(lowerWrapper, S_internalmutation) THEN "internalMutation"
     ELSE IF Includes(lowerWrapper, S_internalaction) THEN "internalAction"
     ELSE IF Includes(lowerWrapper, W_query) THEN "query"
     ELSE IF Includes(lowerWrapper, W_mutation) THEN "mutation"
     ELSE IF Includes(lowerWrapper, W_action) THEN "action"
     ELSE "unknown"

\* The first index >= i of text that is not in class, Len(text) + 1 if none:
\* where a greedy class* that starts at i ends.
RECURSIVE SkipClass(_, _, _)
SkipClass(text, i, class) ==
  IF i <= Len(text) /\ text[i] \in class THEN SkipClass(text, i + 1, class)
  ELSE i

\* The first index >= i of text that holds ch, Len(text) + 1 if none: where a
\* greedy [^ch]* that starts at i ends.
RECURSIVE SkipUntil(_, _, _)
SkipUntil(text, i, ch) ==
  IF i <= Len(text) /\ text[i] # ch THEN SkipUntil(text, i + 1, ch)
  ELSE i

\* The literal lit occurs in text at index i.
LiteralAt(text, i, lit) ==
  i + Len(lit) - 1 <= Len(text) /\ SubSeq(text, i, i + Len(lit) - 1) = lit

\* (?:<[^>]+>)?\s*\(  from index i: the index after the "(", or 0 if there is
\* no match.  The group is tried first and given up if what follows fails.
TailAt(text, i) ==
  LET Paren(k) == LET j == SkipClass(text, k, SpaceChars)
                  IN IF j <= Len(text) /\ text[j] = "(" THEN j + 1 ELSE 0
      close == IF i <= Len(text) /\ text[i] = "<"
               THEN SkipUntil(text, i + 1, ">")
               ELSE 0
      withGroup == IF close > i + 1 /\ close <= Len(text) /\ text[close] = ">"
                   THEN Paren(close + 1) ELSE 0
  IN IF withGroup # 0 THEN withGroup ELSE Paren(i)

\* The alternation (w1|w2|...) followed by the tail, from index i: the first
\* alternative, in list order, with which the rest of the pattern matches.
WrapperAt(text, i, wrappers) ==
  LET ok == {k \in 1..Len(wrappers) :
               /\ LiteralAt(text, i, wrappers[k])
               /\ TailAt(text, i + Len(wrappers[k])) # 0}
  IN IF ok = {} THEN 0 ELSE CHOOSE k \in ok : \A j \in ok : k <= j

NoMatch == [ok |-> FALSE, index |-> 0, end |-> 0, name |-> <<>>, wrapper |-> <<>>]

\* pathResolver.ts:167-175: the pattern
\*   export\s+const\s+(\w+)\s*=\s*(w1|w2|...)(?:<[^>]+>)?\s*\(
\* tried at index i of text.
MatchAt(text, i, wrappers) ==
  LET a == i + Len(S_export)
      b == SkipClass(text, a, SpaceChars)
      c == b + Len(S_const)
      d == SkipClass(text, c, SpaceChars)
      e == SkipClass(text, d, WordChars)
      f == SkipClass(text, e, SpaceChars)
      g == SkipClass(text, f + 1, SpaceChars)
      k == WrapperAt(text, g, wrappers)
  IN IF /\ LiteralAt(text, i, S_export) /\ b > a
        /\ LiteralAt(text, b, S_const) /\ d > c
        /\ e > d
        /\ f <= Len(text) /\ text[f] = "="
        /\ k # 0
     THEN [ok |-> TRUE, index |-> i,
           end |-> TailAt(text, g + Len(wrappers[k])),
           name |-> SubSeq(text, d, e - 1),
           wrapper |-> wrappers[k]]
     ELSE NoMatch

\* RegExp.prototype.exec with the g flag: the leftmost match that starts at
\* lastIndex or later (lastIndex is an index into text, from 1).
exec(text, lastIndex, wrappers) ==
  LET starts == {i \in lastIndex..Len(text) : MatchAt(text, i, wrappers).ok}
  IN IF starts = {} THEN NoMatch
     ELSE MatchAt(text, CHOOSE i \in starts : \A j \in starts : i <= j, wrappers)

\* document.positionAt(offset), offset = index - 1
positionAt(text, index) ==
  LET breaks == {i \in 1..(index - 1) : text[i] = "\n"}
      last == IF breaks = {} THEN 0 ELSE CHOOSE i \in breaks : \A j \in breaks : j <= i
  IN [line |-> Cardinality(breaks), character |-> index - 1 - last]

MaxWrapperTokens == 3

NoFunctions == <<>>
OtherRoot == WsRoot \o Slash \o S_o
OtherProject == [found |-> TRUE, convexDir |-> OtherRoot, workspaceRoot |-> WsRoot,
                 configPath |-> <<>>, generatedApiPath |-> <<>>]

\* The project whose root is the workspace folder, one level above CodecRoot.
OuterProject == [found |-> TRUE, convexDir |-> WsRoot, workspaceRoot |-> WsRoot,
                 configPath |-> <<>>, generatedApiPath |-> <<>>]

\* Wrapper names to classify: up to MaxWrapperTokens pieces put together.
WrapperTokens ==
  {S_internal, S_Internal, W_query, S_Query, W_mutation, S_Mutation, W_action,
   S_Action, S_authedZod, S_doSomething, S_trans}
WrapperNames == Concats(WrapperTokens, MaxWrapperTokens) \ {<<>>}

\* Files to scan: under the root, in its _generated directory, outside it.
ScanFiles ==
  {CodecRoot \o Slash \o S_a \o E_ts,
   CodecRoot \o Slash \o S_generated \o Slash \o S_api \o E_ts,
   OtherRoot \o Slash \o S_a \o E_ts,
   AbsPath(<<S_w, S_cx2, S_a>>) \o E_ts}

\* The wrapper written in the export binding, what follows it before the
\* "(", and the customWrappers setting.
BindingWrappers ==
  {W_query, S_Query, S_queryX, W_internalMutation, S_myWrap, S_doSomething,
   S_x \o W_query, S_authedZod \o S_Mutation, W_action}
BindingGenerics == {<<>>, <<"<">> \o S_T \o <<">">>,
                    <<"<">> \o S_T \o <<"<">> \o S_T \o <<">", ">">>}
CustomWrapperSettings ==
  {<<>>, <<S_doSomething>>, <<S_queryX, S_myWrap>>, <<S_authedZod \o S_Mutation>>}

\* The text  export const <name><sp>=<sp><wrapper><generic>({
Binding(name, sp, wrapper, generic) ==
  S_export \o <<" ">> \o S_const \o <<" ">> \o name \o sp \o <<"=">> \o sp
    \o wrapper \o generic \o <<"(", "{">>

\* A second definition, on the next line.
SecondBinding == <<"\n">> \o Binding(S_x, <<" ">>, W_query, <<>>)

ScanInit ==
  /\ spc = "idle"
  /\ sKind = "none"
  /\ sFunctions = NoFunctions
  /\ sMatch = NoMatch
  /\ sLocalProject = NotFound
  /\ sChanged = FALSE
  /\ \/ /\ sWrapper \in WrapperNames
        /\ sFile = NoStr
        /\ sContent = <<>>
        /\ sBinding = [wrapper |-> NoStr, generic |-> NoStr]
        /\ sCustom = <<>>
        /\ sReadable = TRUE
        /\ sProject = FoundProject
     \/ /\ sWrapper = NoStr
        /\ sFile \in ScanFiles
        /\ sBinding \in [wrapper : BindingWrappers, generic : BindingGenerics]
        /\ \E sp \in {<<>>, <<" ">>}, before \in {<<>>, <<"\n">>},
              after \in {<<>>, SecondBinding} :
             sContent = before \o Binding(S_f, sp, sBinding.wrapper, sBinding.generic)
                          \o after
        /\ sCustom \in CustomWrapperSettings
        /\ sReadable \in BOOLEAN
        /\ sProject \in {FoundProject, NotFound}

\* pathResolver.ts:180: a caller classifies a wrapper name.
Classify ==
  /\ spc = "idle"
  /\ sWrapper # NoStr
  /\ sKind' = getFunctionType(sWrapper)
  /\ spc' = "classified"
  /\ UNCHANGED <<notScan, sFile, sContent, sBinding, sCustom, sReadable, sProject,
                 sLocalProject, sChanged, sMatch, sFunctions, sWrapper>>

\* pathResolver.ts:211-214: findConvexFunctionsInFile up to openTextDocument.
scan_start ==
  /\ spc = "idle"
  /\ sFile # NoStr
  /\ sLocalProject' = sProject
  /\ spc' = IF sProject.found THEN "opening" ELSE "done"
  /\ UNCHANGED <<notScan, sFile, sContent, sBinding, sCustom, sReadable, sProject,
                 sChanged, sMatch, sFunctions, sWrapper, sKind>>

\* pathResolver.ts:217-223 and 247-250: the document is read and the
\* pattern is run for the first time; a file that cannot be read gives [].
scan_open ==
  /\ spc = "opening"
  /\ LET match == exec(sContent, 1, getAllWrappers(sCustom))
     IN IF ~sReadable THEN sMatch' = NoMatch /\ spc' = "done"
        ELSE /\ sMatch' = match
             /\ spc' = IF match.ok THEN "computing" ELSE "done"
  /\ UNCHANGED <<notScan, sFile, sContent, sBinding, sCustom, sReadable, sProject,
                 sLocalProject, sChanged, sFunctions, sWrapper, sKind>>

\* pathResolver.ts:226-243: one turn of the loop, resumed when computeApiPath
\* (which asks getConvexProjectInfo again) has answered.
scan_push ==
  /\ spc = "computing"
  /\ LET position == positionAt(sContent, sMatch.index)
         apiPath == computeApiPath(sProject, sFile, sMatch.name)
         match == exec(sContent, sMatch.end, getAllWrappers(sCustom))
     IN /\ sFunctions' =
             IF apiPath # NoStr
             THEN Append(sFunctions,
                         [name |-> sMatch.name,
                          type |-> getFunctionType(sMatch.wrapper),
                          filePath |-> sFile,
                          line |-> position.line,
                          column |-> position.character,
                          apiPath |-> apiPath,
                          wrapper |-> sMatch.wrapper])
             ELSE sFunctions
        /\ sMatch' = match
        /\ spc' = IF match.ok THEN "computing" ELSE "done"
  /\ UNCHANGED <<notScan, sFile, sContent, sBinding, sCustom, sReadable, sProject,
                 sLocalProject, sChanged, sWrapper, sKind>>

\* While a scan is suspended the cache is refreshed and the located project
\* is another one, or none.
ProjectChange ==
  /\ spc \in {"opening", "computing"}
  /\ ~sChanged
  /\ sProject' \in {FoundProject, OtherProject, OuterProject, NotFound} \ {sProject}
  /\ sChanged' = TRUE
  /\ UNCHANGED <<notScan, sFile, sContent, sBinding, sCustom, sReadable,
                 sLocalProject, sMatch, sFunctions, sWrapper, sKind, spc>>

(***************************************************************************)
(* Definition lookup at the cursor: findConvexFunctionAtPosition,          *)
(* getWordAtPosition (pathResolver.ts:263-360)                             *)
(***************************************************************************)
MaxLines == 3

\* A ConvexFunctionDefinition that stands for null.
NoRecord == [name |-> NoStr, type |-> "none", filePath |-> NoStr, line |-> 0 - 1,
             column |-> 0 - 1, apiPath |-> NoStr, wrapper |-> NoStr]

\* The lines a document is made of: an empty line, a line with the words f
\* and x, and the export lines of the definitions f and query.
DocLines ==
  {<<>>,
   S_f \o <<" ">> \o S_x,
   Binding(S_f, <<" ">>, W_query, <<>>),
   Binding(W_query, <<" ">>, W_mutation, <<>>)}

Documents == SeqsUpTo(DocLines, MaxLines)

\* Columns of the cursor: on the first and the second word of a line, on the
\* name of an export line and on its wrapper; a cursor is never beyond the
\* end of its line.
CursorColumns == {0, 2, 13, 17}

\* document.getText()
getText(lines) == Join(lines, <<"\n">>)

\* document.getWordRangeAtPosition(position, /\w+/) and getText(range): the
\* column is brought into the line, and the first run of word characters
\* that holds it (its end included) is the word.  pathResolver.ts:351-360
getWordAtPosition(lines, position) ==
  LET text == lines[position.line + 1]
      col == IF position.character > Len(text) THEN Len(text)
             ELSE position.character
      \* runs [a, b) of word characters, a and b counted from 0
      runs == {r \in (0..Len(text)) \X (0..Len(text)) :
                 /\ r[1] < r[2]
                 /\ \A i \in (r[1] + 1)..r[2] : text[i] \in WordChars
                 /\ (r[1] = 0 \/ text[r[1]] \notin WordChars)
                 /\ (r[2] = Len(text) \/ text[r[2] + 1] \notin WordChars)}
      holding == {r \in runs : r[1] <= col /\ col <= r[2]}
  IN IF holding = {} THEN NoStr
     ELSE LET r == CHOOSE q \in holding : \A p \in holding : q[1] <= p[1]
          IN SubSeq(text, r[1] + 1, r[2])

\* pathResolver.ts:315-319: the first definition whose export line is the
\* cursor's line.
Strategy1(functions, position) ==
  LET on == {i \in 1..Len(functions) : functions[i].line = position.line}
  IN IF on = {} THEN NoRecord
     ELSE functions[CHOOSE i \in on : \A j \in on : i <= j]

\* pathResolver.ts:322-327: the first definition named like the word under
\* the cursor.
Strategy2(functions, wordUnderCursor) ==
  LET named == {i \in 1..Len(functions) : functions[i].name = wordUnderCursor}
  IN IF wordUnderCursor = NoStr \/ named = {} THEN NoRecord
     ELSE functions[CHOOSE i \in named : \A j \in named : i <= j]

\* [...functions].sort((a, b) => a.line - b.line): a stable sort.
RECURSIVE SortByLine(_)
SortByLine(functions) ==
  IF functions = <<>> THEN <<>>
  ELSE LET least == CHOOSE i \in 1..Len(functions) :
                      /\ \A j \in 1..Len(functions) :
                           functions[i].line <= functions[j].line
                      /\ \A j \in 1..(i - 1) :
                           functions[j].line # functions[i].line
       IN <<functions[least]>> \o
          SortByLine(SubSeq(functions, 1, least - 1) \o
                     SubSeq(functions, least + 1, Len(functions)))

\* pathResolver.ts:331-343, without the end of the range (line 340 tests the
\* start only).
Strategy3_NoEnd(functions, position, lineCount) ==
  LET sortedFunctions == SortByLine(functions)
      holding == {i \in 1..Len(sortedFunctions) :
                    position.line >= sortedFunctions[i].line}
  IN IF holding = {} THEN NoRecord
     ELSE sortedFunctions[CHOOSE i \in holding : \A j \in holding : i <= j]

\* pathResolver.ts:331-343: the first definition, in line order, whose range
\* of lines (up to the line before the next definition, or the last line of
\* the document) holds the cursor's line.
Strategy3(functions, position, lineCount) ==
  LET sortedFunctions == SortByLine(functions)
      EndLine(i) == IF i < Len(sortedFunctions)
                    THEN sortedFunctions[i + 1].line - 1
                    ELSE lineCount - 1
      holding == {i \in 1..Len(sortedFunctions) :
                    /\ position.line >= sortedFunctions[i].line
                    /\ position.line <= EndLine(i)}
  IN IF holding = {} THEN NoRecord
     ELSE sortedFunctions[CHOOSE i \in holding : \A j \in holding : i <= j]

\* pathResolver.ts:314-345, the word under the cursor tried first.
Strategies_WordFirst(functions, lines, position) ==
  LET one == Strategy1(functions, position)
      two == Strategy2(functions, getWordAtPosition(lines, position))
  IN IF two # NoRecord THEN two
     ELSE IF one # NoRecord THEN one
     ELSE Strategy3(functions, position, Len(lines))

\* pathResolver.ts:314-345, a cursor above the first definition taken to be
\* in it.
Strategies_FromTop(functions, lines, position) ==
  LET one == Strategy1(functions, position)
      two == Strategy2(functions, getWordAtPosition(lines, position))
      three == Strategy3(functions, position, Len(lines))
  IN IF one # NoRecord THEN one
     ELSE IF two # NoRecord THEN two
     ELSE IF three # NoRecord \/ functions = <<>> THEN three
     ELSE SortByLine(functions)[1]

\* pathResolver.ts:314-345: the three strategies in order.
Strategies(functions, lines, position) ==
  LET one == Strategy1(functions, position)
      two == Strategy2(functions, getWordAtPosition(lines, position))
  IN IF one # NoRecord THEN one
     ELSE IF two # NoRecord THEN two
     ELSE Strategy3(functions, position, Len(lines))

\* pathResolver.ts:272-280: the document is looked at.
Lookable(projectInfo, fsPath) ==
  /\ StartsWith(fsPath, projectInfo.convexDir)
  /\ ~Includes(fsPath, S_generated)

FindInit ==
  /\ fpc = "idle"
  /\ \/ /\ fProject = FoundProject
        /\ fFile = CodecRoot \o Slash \o S_a \o E_ts
        /\ fLines \in Documents
     \/ /\ fProject \in {FoundProject, NotFound}
        /\ fFile \in ScanFiles
        /\ fLines \in SeqsUpTo(DocLines, 1)
  /\ \E l \in 0..(Len(fLines) - 1) :
       \E c \in {k \in CursorColumns : k <= Len(fLines[l + 1])} :
         fPosition = [line |-> l, character |-> c]
  /\ fMatch = NoMatch
  /\ fFunctions = NoFunctions
  /\ fResult = NoRecord
  /\ fChanged = FALSE

\* pathResolver.ts:267-298: findConvexFunctionAtPosition up to the first
\* computeApiPath, or to its end when there is nothing to compute.
find_start ==
  /\ fpc = "idle"
  /\ LET match == exec(getText(fLines), 1, getAllWrappers(<<>>))
     IN IF fProject.found /\ Lookable(fProject, fFile)
        THEN /\ fMatch' = match
             /\ fpc' = IF match.ok THEN "computing" ELSE "done"
             /\ fResult' = IF match.ok THEN NoRecord
                           ELSE Strategies(NoFunctions, fLines, fPosition)
        ELSE fMatch' = NoMatch /\ fpc' = "done" /\ fResult' = NoRecord
  /\ UNCHANGED <<notFind, fProject, fFile, fLines, fPosition, fFunctions, fChanged>>

\* pathResolver.ts:294-345: one turn of the loop, resumed when
\* computeApiPath has answered; after the last turn the strategies run.
find_push ==
  /\ fpc = "computing"
  /\ LET content == getText(fLines)
         startPos == positionAt(content, fMatch.index)
         apiPath == computeApiPath(fProject, fFile, fMatch.name)
         match == exec(content, fMatch.end, getAllWrappers(<<>>))
         functions ==
           IF apiPath # NoStr
           THEN Append(fFunctions,
                       [name |-> fMatch.name,
                        type |-> getFunctionType(fMatch.wrapper),
                        filePath |-> fFile,
                        line |-> startPos.line,
                        column |-> startPos.character,
                        apiPath |-> apiPath,
                        wrapper |-> fMatch.wrapper])
           ELSE fFunctions
     IN /\ fFunctions' = functions
        /\ fMatch' = match
        /\ fpc' = IF match.ok THEN "computing" ELSE "done"
        /\ fResult' = IF match.ok THEN NoRecord
                      ELSE Strategies(functions, fLines, fPosition)
  /\ UNCHANGED <<notFind, fProject, fFile, fLines, fPosition, fChanged>>

\* While a lookup is suspended the cache is refreshed and the located
\* project is another one, or none.
FindProjectChange ==
  /\ fpc = "computing"
  /\ ~fChanged
  /\ fProject' \in {FoundProject, OtherProject, OuterProject, NotFound} \ {fProject}
  /\ fChanged' = TRUE
  /\ UNCHANGED <<notFind, fFile, fLines, fPosition, fMatch, fFunctions, fResult, fpc>>

ScanNext ==
  \/ Classify \/ scan_start \/ scan_open \/ scan_push \/ ProjectChange
  \/ find_start \/ find_push \/ FindProjectChange

(***************************************************************************)
(* Claims about the scanner                                                *)
(***************************************************************************)
\* The kinds in priority order, with the text of each.
KindPriority ==
  <<[kind |-> "internalQuery", text |-> W_internalQuery],
    [kind |-> "internalMutation", text |-> W_internalMutation],
    [kind |-> "internalAction", text |-> W_internalAction],
    [kind |-> "query", text |-> W_query],
    [kind |-> "mutation", text |-> W_mutation],
    [kind |-> "action", text |-> W_action]>>

\* The two characters are the same letter in either case, or the same
\* character.
SameLetter(c, d) ==
  \/ c = d
  \/ \E k \in 1..26 : {c, d} = {UpperCase[k], LowerCase[k]}

\* p occurs in s, letter case ignored.
OccursIn(p, s) ==
  \E off \in 0..(Len(s) - Len(p)) : \A j \in 1..Len(p) : SameLetter(s[off + j], p[j])

\* The first entry of the priority list that occurs in the name, else unknown.
KindOf(w) ==
  LET hits == {i \in 1..Len(KindPriority) : OccursIn(KindPriority[i].text, w)}
  IN IF hits = {} THEN "unknown"
     ELSE KindPriority[CHOOSE i \in hits : \A j \in hits : i <= j].kind

\* C9: the kind of a wrapper name is the first entry of internalQuery,
\* internalMutation, internalAction, query, mutation, action whose lowercase
\* form occurs in the lowercased name, and unknown if none occurs; so
\* internalMutation is an internal mutation, authedZodMutation a mutation
\* and doSomething unknown.  The same for the type of every record produced.
C9_KindByPriority ==
  /\ spc = "classified" =>
       /\ sKind = KindOf(sWrapper)
       /\ sWrapper = W_internalMutation => sKind = "internalMutation"
       /\ sWrapper = S_authedZod \o S_Mutation => sKind = "mutation"
       /\ sWrapper = S_doSomething => sKind = "unknown"
  /\ \A i \in 1..Len(sFunctions) : sFunctions[i].type = KindOf(sFunctions[i].wrapper)

\* A name that holds both an internal form and, before it, a plain form of
\* another kind was classified by the internal form.
C9_Witness ==
  /\ spc = "classified"
  /\ sWrapper = S_Query \o S_Internal \o S_Action
  /\ sKind = "internalAction"

\* The wrappers in force: the six default names and the configured ones.
WrapperSet ==
  {W_query, W_mutation, W_action, W_internalQuery, W_internalMutation,
   W_internalAction} \cup {sCustom[i] : i \in 1..Len(sCustom)}

\* The records produced for the binding of f.
RecordsOfF == {i \in 1..Len(sFunctions) : sFunctions[i].name = S_f}

\* The binding has the form  export const f = W(  or  export const f = W<T>(
PlainBinding == sBinding.generic \in {<<>>, <<"<">> \o S_T \o <<">">>}

C28_SnapshotPerScan ==
  /\ \A i \in 1..Len(sFunctions) :
       sFunctions[i].apiPath =
         computeApiPath(sLocalProject, sFile, sFunctions[i].name)
  /\ \A i \in 1..Len(fFunctions) :
       fFunctions[i].apiPath =
         computeApiPath(FoundProject, fFile, fFunctions[i].name)

(***************************************************************************)
(* Claims about the lookup at the cursor                                   *)
(***************************************************************************)
\* The collected definitions, by index.
Found == 1..Len(fFunctions)

\* The definitions are on lines of their own.
DistinctLines ==
  \A i, j \in Found : i # j => fFunctions[i].line # fFunctions[j].line

\* The word under the cursor.
WordUnderCursor == getWordAtPosition(fLines, fPosition)

\* The collected definitions on the cursor's line, and those named like the
\* word under the cursor.
OnCursorLine == {i \in Found : fFunctions[i].line = fPosition.line}
NamedByWord ==
  {i \in Found : WordUnderCursor # NoStr /\ fFunctions[i].name = WordUnderCursor}

\* The last line of definition i: the line before the next definition, or
\* the last line of the document.
LastLineOf(i) ==
  LET later == {fFunctions[j].line : j \in {k \in Found : fFunctions[k].line > fFunctions[i].line}}
  IN IF later = {} THEN Len(fLines) - 1
     ELSE (CHOOSE m \in later : \A n \in later : m <= n) - 1

\* The definitions whose lines hold the cursor's line.
Containing ==
  {i \in Found : fFunctions[i].line <= fPosition.line /\ fPosition.line <= LastLineOf(i)}

\* The first of a non-empty set of collected definitions.
FirstOf(S) == fFunctions[CHOOSE i \in S : \A j \in S : i <= j]

\* C11: findConvexFunctionAtPosition returns the result of the first
\* strategy that succeeds: (1) a definition whose export line is the cursor
\* line, else (2) a definition named like the word under the cursor, else
\* (3) the definition whose range of lines holds the cursor line, else
\* nothing; so a cursor on a definition's export line resolves to that
\* definition even when the word under it names another definition.
C11_StrategyOrder ==
  (fpc = "done" /\ DistinctLines) =>
    IF OnCursorLine # {} THEN fResult = FirstOf(OnCursorLine)
    ELSE IF NamedByWord # {} THEN fResult = FirstOf(NamedByWord)
    ELSE IF Containing # {} THEN fResult = FirstOf(Containing)
    ELSE fResult = NoRecord

\* The cursor is on the export line of f, on the word query, which is the
\* name of another definition of the document: the lookup gives f.
C11_Witness ==
  /\ fpc = "done"
  /\ ~fChanged
  /\ fLines = <<Binding(W_query, <<" ">>, W_mutation, <<>>),
                Binding(S_f, <<" ">>, W_query, <<>>)>>
  /\ fPosition = [line |-> 1, character |-> 17]
  /\ WordUnderCursor = W_query
  /\ Len(fFunctions) = 2
  /\ fResult.name = S_f
  /\ fResult.line = 1

\* C12 as stated: with definitions on distinct lines, a cursor on any line
\* from d's line to the line before the next definition (the last line of
\* the document for the last definition) resolves to d.
C12_BodyContainment ==
  (fpc = "done" /\ DistinctLines) =>
    \A i \in Containing : fResult = fFunctions[i]

\* C12 amended: such a cursor resolves to d when it is on d's export line or
\* the word under it is not the name of a definition of the file; otherwise
\* it resolves to the first definition of the file with that name.
C12_BodyContainment_Amended ==
  (fpc = "done" /\ DistinctLines) =>
    \A i \in Containing :
      IF fPosition.line = fFunctions[i].line \/ NamedByWord = {}
      THEN fResult = fFunctions[i]
      ELSE fResult = FirstOf(NamedByWord)

\* With f on line 0 and query on line 2, a cursor on the empty line 1 gives f.
C12_Witness ==
  /\ fpc = "done"
  /\ ~fChanged
  /\ fLines = <<Binding(S_f, <<" ">>, W_query, <<>>), <<>>,
                Binding(W_query, <<" ">>, W_mutation, <<>>)>>
  /\ fPosition.line = 1
  /\ Len(fFunctions) = 2
  /\ fResult.name = S_f
  /\ fResult.line = 0

\* The cursor's line is above every collected definition, and there is one.
AboveAll ==
  /\ fFunctions # <<>>
  /\ \A i \in Found : fPosition.line < fFunctions[i].line

\* C13 as stated: a cursor on a line before the first definition resolves
\* to no definition, whatever text is under it.
C13_BeforeFirstIsNone ==
  (fpc = "done" /\ AboveAll) => fResult = NoRecord

\* C13 amended: such a cursor resolves to no definition unless the word
\* under it is the name of a definition of the file, and then to the first
\* definition with that name.
C13_BeforeFirstIsNone_Amended ==
  (fpc = "done" /\ AboveAll) =>
    IF NamedByWord = {} THEN fResult = NoRecord
    ELSE fResult = FirstOf(NamedByWord)

\* Above the definition of f, on the word x of the line "f x": nothing.
C13_Witness ==
  /\ fpc = "done"
  /\ ~fChanged
  /\ fLines = <<S_f \o <<" ">> \o S_x, Binding(S_f, <<" ">>, W_query, <<>>)>>
  /\ fPosition = [line |-> 0, character |-> 2]
  /\ WordUnderCursor = S_x
  /\ Len(fFunctions) = 1
  /\ fResult = NoRecord

\* C14: for a file under the _generated directory of the root that holds a
\* matching export, neither findConvexFunctionsInFile nor
\* findConvexFunctionAtPosition returns a definition record.
C14_GeneratedExcluded ==
  /\ (/\ spc = "done" /\ sFile # NoStr /\ sLocalProject.found
      /\ LiesUnder(sFile, sLocalProject.convexDir \o Slash \o S_generated)) =>
       sFunctions = NoFunctions
  /\ (/\ fpc = "done" /\ fFile # NoStr
      /\ LiesUnder(fFile, CodecRoot \o Slash \o S_generated)) =>
       fResult = NoRecord

\* C15: for a file that does not lie in the root directory (a file of a
\* sibling directory whose path starts with the root's path included),
\* findConvexFunctionsInFile and findConvexFunctionAtPosition give no
\* definition record (the project staying as it is meanwhile).
C15_OutsideRootExcluded ==
  /\ (/\ spc = "done" /\ sFile # NoStr /\ sLocalProject.found /\ ~sChanged
      /\ ~LiesUnder(sFile, sLocalProject.convexDir)) =>
       sFunctions = NoFunctions
  /\ (/\ fpc = "done" /\ fFile # NoStr /\ fProject.found /\ ~fChanged
      /\ ~LiesUnder(fFile, fProject.convexDir)) =>
       fResult = NoRecord

(***************************************************************************)
(* Usage search: searchForUsages, searchWithRipgrep, fallbackSearch        *)
(* (hoverProvider.ts:208-416), getSearchPaths (pathResolver.ts:117-134)    *)
(***************************************************************************)
H_useQuery == <<"u", "s", "e", "Q", "u", "e", "r", "y">>
H_useMutation == <<"u", "s", "e", "M", "u", "t", "a", "t", "i", "o", "n">>
H_useAction == <<"u", "s", "e", "A", "c", "t", "i", "o", "n">>
H_usePaginatedQuery == <<"u", "s", "e", "P", "a", "g", "i", "n", "a", "t", "e", "d", "Q", "u", "e", "r", "y">>
H_useConvexQuery == <<"u", "s", "e", "C", "o", "n", "v", "e", "x", "Q", "u", "e", "r", "y">>
H_useConvexMutation == <<"u", "s", "e", "C", "o", "n", "v", "e", "x", "M", "u", "t", "a", "t", "i", "o", "n">>
H_ctx_runQuery == <<"c", "t", "x", ".", "r", "u", "n", "Q", "u", "e", "r", "y">>
H_ctx_runMutation == <<"c", "t", "x", ".", "r", "u", "n", "M", "u", "t", "a", "t", "i", "o", "n">>
H_ctx_runAction == <<"c", "t", "x", ".", "r", "u", "n", "A", "c", "t", "i", "o", "n">>
S_ctx == <<"c", "t", "x">>
S_app == <<"a", "p", "p">>
S_sub == <<"s", "u", "b">>
S_lib == <<"l", "i", "b">>
S_p == <<"p">>
S_q == <<"q">>
S_r == <<"r">>
S_m == <<"m">>
S_dist == <<"d", "i", "s", "t">>
S_out == <<"o", "u", "t">>
S_git == <<".", "g", "i", "t">>
E_md == <<".", "m", "d">>
S_api_a_f == <<"a", "p", "i", ".", "a", ".", "f">>

\* hoverProvider.ts:243: the names of the alternation, in its order.
HookNames ==
  <<H_useQuery, H_useMutation, H_useAction, H_usePaginatedQuery,
    H_useConvexQuery, H_useConvexMutation, H_ctx_runQuery, H_ctx_runMutation,
    H_ctx_runAction>>

\* hookUsed left undefined
NoHook == <<"<undefined>">>

\* hoverProvider.ts:243: the alternation followed by \s*\( tried at index i
\* of the line: the number of the first alternative that matches, or 0.
HookAt(lineText, i) ==
  LET ok == {k \in 1..Len(HookNames) :
               /\ LiteralAt(lineText, i, HookNames[k])
               /\ LET j == SkipClass(lineText, i + Len(HookNames[k]), SpaceChars)
                  IN j <= Len(lineText) /\ lineText[j] = "("}
  IN IF ok = {} THEN 0 ELSE CHOOSE k \in ok : \A j \in ok : k <= j

\* hoverProvider.ts:242-252, keeping the last match of the line.
hookUsed_Last(lineText) ==
  LET at == {i \in 1..Len(lineText) : HookAt(lineText, i) # 0}
  IN IF at = {} THEN NoHook
     ELSE HookNames[HookAt(lineText, CHOOSE i \in at : \A j \in at : j <= i)]

\* hoverProvider.ts:242-252: lineText.match(...) is the leftmost match, and
\* hookUsed its first group.
hookUsed(lineText) ==
  LET at == {i \in 1..Len(lineText) : HookAt(lineText, i) # 0}
  IN IF at = {} THEN NoHook
     ELSE HookNames[HookAt(lineText, CHOOSE i \in at : \A j \in at : i <= j)]

\* hoverProvider.ts:229: apiPath.replace(/\./g, "\\.")
RECURSIVE escapeDots(_)
escapeDots(apiPath) ==
  IF apiPath = <<>> THEN <<>>
  ELSE (IF Head(apiPath) = "." THEN <<"\\", ".">> ELSE <<Head(apiPath)>>)
       \o escapeDots(Tail(apiPath))

\* The regular expression pattern (word characters, "." and escaped
\* characters) tried at index i of text: the index after the match, or 0.
RECURSIVE PatternAt(_, _, _)
PatternAt(text, i, pattern) ==
  IF pattern = <<>> THEN i
  ELSE IF i > Len(text) THEN 0
  ELSE IF Head(pattern) = "\\"
       THEN IF Len(pattern) >= 2 /\ text[i] = pattern[2]
            THEN PatternAt(text, i + 1, SubSeq(pattern, 3, Len(pattern)))
            ELSE 0
  ELSE IF Head(pattern) = "."
       THEN IF text[i] # "\n" THEN PatternAt(text, i + 1, Tail(pattern)) ELSE 0
  ELSE IF text[i] = Head(pattern) THEN PatternAt(text, i + 1, Tail(pattern))
  ELSE 0

\* The starts (indexes from 1) of the matches of pattern in text, leftmost
\* first and not overlapping, from index from on: what a global search of
\* the matcher or regex.exec in a loop finds.
RECURSIVE MatchStarts(_, _, _)
MatchStarts(text, from, pattern) ==
  LET at == {i \in from..Len(text) : PatternAt(text, i, pattern) # 0}
  IN IF at = {} THEN <<>>
     ELSE LET i == CHOOSE k \in at : \A j \in at : k <= j
              next == PatternAt(text, i, pattern)
          IN <<i>> \o MatchStarts(text, IF next > i THEN next ELSE i + 1, pattern)

\* String.prototype.trim
RECURSIVE Trim(_)
Trim(s) ==
  IF s = <<>> THEN s
  ELSE IF Head(s) \in SpaceChars THEN Trim(Tail(s))
  ELSE IF s[Len(s)] \in SpaceChars THEN Trim(SubSeq(s, 1, Len(s) - 1))
  ELSE s

MaxFileLines == 2
MaxHookTokens == 4

\* hoverProvider.ts:384
FileCap == 1000

\* A line of a frontend file: a usage in a hook, indented; two usages on one
\* line; a text that holds the identifier but for one of its dots; a line
\* without the identifier; a usage of a function whose name goes on after
\* the identifier.
U_hook == <<" ", " ">> \o H_useMutation \o <<"(">> \o S_api_a_f \o <<")", ";">>
U_two == S_api_a_f \o <<",", " ">> \o S_api_a_f
U_near == H_useQuery \o <<"(">> \o S_api \o <<"X">> \o S_a \o DotStr \o S_f \o <<")">>
U_none == S_x
U_longer == H_useQuery \o <<"(">> \o S_api_a_f \o <<"g", ")">>
SearchLines == {U_hook, U_two, U_near, U_none}

\* The files of the workspace: two with any lines, one in another
\* directory with a usage and a usage of the longer name, one in node_modules
\* and one that is no source file.
FileP == AbsPath(<<S_w, S_app, S_p>>) \o E_tsx
FileQ == AbsPath(<<S_w, S_app, S_sub, S_q>>) \o E_ts
FileR == AbsPath(<<S_w, S_lib, S_r>>) \o E_js
FileM == AbsPath(<<S_w, S_node_modules, S_m>>) \o E_js
FileD == AbsPath(<<S_w, S_app, S_p>>) \o E_md
Workspaces ==
  {{[path |-> FileP, lines |-> p], [path |-> FileQ, lines |-> <<q>>],
    [path |-> FileR, lines |-> <<U_hook, U_longer>>],
    [path |-> FileM, lines |-> <<U_hook>>],
    [path |-> FileD, lines |-> <<U_hook>>]} :
     p \in SeqsUpTo(SearchLines, MaxFileLines), q \in {U_two, U_none}}

\* Setting convexNavigator.frontendPaths
FrontendPathSettings ==
  {<<>>, <<S_app>>, <<S_app, S_app \o Slash \o S_sub>>, <<S_lib, S_app>>,
   <<AbsPath(<<S_w, S_lib>>), S_app \o Slash \o S_sub>>}

SearchProject == [found |-> TRUE, convexDir |-> AbsPath(<<S_w, S_convex>>),
                  workspaceRoot |-> WsRoot, configPath |-> <<>>,
                  generatedApiPath |-> <<>>]

\* path.isAbsolute
isAbsolute(p) == p # <<>> /\ p[1] = "/"

\* pathResolver.ts:117-134
getSearchPaths(projectInfo, frontendPaths) ==
  IF ~projectInfo.found THEN <<>>
  ELSE IF Len(frontendPaths) > 0
  THEN [i \in 1..Len(frontendPaths) |->
          IF isAbsolute(frontendPaths[i]) THEN frontendPaths[i]
          ELSE PathJoin(projectInfo.workspaceRoot, frontendPaths[i])]
  ELSE <<projectInfo.workspaceRoot>>

\* config.ts:32-38: the directories of the default excludePatterns
ExcludedDirs == {S_node_modules, S_generated, S_dist, S_out, S_git}

\* The globs *.ts, *.tsx, *.js, *.jsx (hoverProvider.ts:297-304, 382)
HasSourceExtension(p) == \E e \in 1..Len(Extensions) : EndsWith(p, Extensions[e])

\* A glob **/<dir>/** of the exclude patterns matches the path.
Excluded(p) ==
  LET segs == Segments(p)
  IN \E i \in 1..(Len(segs) - 1) : segs[i] \in ExcludedDirs

\* The files a matcher looks at in a scope directory.
FilesInScope(files, searchPath) ==
  {f \in files : /\ LiesUnder(f.path, searchPath)
                 /\ HasSourceExtension(f.path)
                 /\ ~Excluded(f.path)}

\* The orders in which a matcher may go through a set of files.
Orderings(S) ==
  {q \in [1..Cardinality(S) -> S] : \A i, j \in 1..Cardinality(S) : q[i] = q[j] => i = j}

\* What rg --json writes for one file: a begin message, a match message for
\* every line with a match (line_number from 1, the starts of all matches of
\* the line from 0, the text of the line with its line end), an end message;
\* nothing for a file without a match.
RECURSIVE RgLines(_, _, _)
RgLines(f, n, pattern) ==
  IF n > Len(f.lines) THEN <<>>
  ELSE LET starts == MatchStarts(f.lines[n], 1, pattern)
       IN (IF starts = <<>> THEN <<>>
           ELSE <<[type |-> "match", path |-> f.path, line_number |-> n,
                   submatches |-> [k \in 1..Len(starts) |-> starts[k] - 1],
                   text |-> f.lines[n] \o <<"\n">>]>>)
          \o RgLines(f, n + 1, pattern)

RgMessage(type, f) ==
  [type |-> type, path |-> f.path, line_number |-> 0, submatches |-> <<>>,
   text |-> <<>>]

RECURSIVE RgStdout(_, _)
RgStdout(order, pattern) ==
  IF order = <<>> THEN <<>>
  ELSE LET found == RgLines(Head(order), 1, pattern)
       IN (IF found = <<>> THEN <<>>
           ELSE <<RgMessage("begin", Head(order))>> \o found
                \o <<RgMessage("end", Head(order))>>)
          \o RgStdout(Tail(order), pattern)

\* hoverProvider.ts:345-365: the close handler turns the match messages into
\* results.
ParseRipgrep(stdout) ==
  LET matches == SelectSeq(stdout, LAMBDA m : m.type = "match")
  IN [k \in 1..Len(matches) |->
        [filePath |-> matches[k].path,
         line |-> matches[k].line_number - 1,
         column |-> IF matches[k].submatches = <<>> THEN 0
                    ELSE matches[k].submatches[1],
         lineText |-> Trim(matches[k].text)]]

\* hoverProvider.ts:389-406: the matches of one file.
FallbackFile(f, pattern) ==
  LET content == getText(f.lines)
      starts == MatchStarts(content, 1, pattern)
  IN [k \in 1..Len(starts) |->
        LET position == positionAt(content, starts[k])
        IN [filePath |-> f.path,
            line |-> position.line,
            column |-> position.character,
            lineText |-> Trim(f.lines[position.line + 1])]]

\* hoverProvider.ts:381-385: findFiles gives at most FileCap files.
Capped(order) ==
  SubSeq(order, 1, IF Len(order) > FileCap THEN FileCap ELSE Len(order))

\* hoverProvider.ts:387-410: the matches of the files, file after file.
RECURSIVE FallbackFiles(_, _)
FallbackFiles(files, pattern) ==
  IF files = <<>> THEN <<>>
  ELSE FallbackFile(Head(files), pattern) \o FallbackFiles(Tail(files), pattern)

\* hoverProvider.ts:373-416: fallbackSearch; findFiles gives the files of the
\* scope in the given order, or throws.
fallbackSearch(order, pattern, throws) ==
  IF throws THEN <<>> ELSE FallbackFiles(Capped(order), pattern)

\* hoverProvider.ts:240-254: the usages of the results of one scope.
UsagesOf(results, apiPath) ==
  [k \in 1..Len(results) |->
     [apiPath |-> apiPath,
      filePath |-> results[k].filePath,
      line |-> results[k].line,
      column |-> results[k].column,
      lineText |-> results[k].lineText,
      hookUsed |-> hookUsed(results[k].lineText)]]


\* Lines to classify: up to MaxHookTokens pieces put together.
HookTokens ==
  {H_useQuery, H_useMutation, H_usePaginatedQuery, H_ctx_runQuery, S_x,
   <<"(">>, <<" ">>, <<";">>}
HookLines == Concats(HookTokens, MaxHookTokens)

\* The inputs of a search, which it does not change.
searchInputs ==
  <<uProject, uFrontendPaths, uFiles, uApiPath, uToolMissing, uBroken, uLine>>

NoPromise == [state |-> "none", value |-> <<>>]
NoFallback == [state |-> "none", results |-> <<>>]

SearchInit ==
  /\ upc = "idle"
  /\ uHook = NoHook
  /\ uSearchPaths = <<>>
  /\ uIndex = 0
  /\ uUsages = <<>>
  /\ uOrder = <<>>
  /\ uError = "none"
  /\ uClose = "none"
  /\ uPromise = NoPromise
  /\ uFallback = NoFallback
  /\ uLog = <<>>
  /\ uChildren = {}
  /\ uApiPath = S_api_a_f
  /\ \/ /\ uLine \in HookLines
        /\ uProject = NotFound
        /\ uFrontendPaths = <<>>
        /\ uFiles = {}
        /\ uToolMissing = FALSE
        /\ uBroken = {}
     \/ /\ uLine = NoStr
        /\ uProject \in {SearchProject, NotFound}
        /\ uFrontendPaths \in FrontendPathSettings
        /\ uFiles \in Workspaces
        /\ uToolMissing \in BOOLEAN
        /\ uBroken \in {{}, {AbsPath(<<S_w, S_app>>)}, {AbsPath(<<S_w, S_lib>>)}}

\* hoverProvider.ts:242-252 on one line.
ClassifyHook ==
  /\ upc = "idle"
  /\ uLine # NoStr
  /\ uHook' = hookUsed(uLine)
  /\ upc' = "classified"
  /\ UNCHANGED <<notSearch, searchInputs, uSearchPaths, uIndex, uUsages, uOrder,
                 uError, uClose, uPromise, uFallback, uLog, uChildren>>

\* hoverProvider.ts:212-223: searchForUsages up to getSearchPaths.
search_start ==
  /\ upc = "idle"
  /\ uLine = NoStr
  /\ upc' = IF uProject.found THEN "paths" ELSE "done"
  /\ UNCHANGED <<notSearch, searchInputs, uSearchPaths, uIndex, uUsages, uOrder,
                 uError, uClose, uPromise, uFallback, uLog, uChildren, uHook>>

\* hoverProvider.ts:225-232: the scopes are known; with none the search
\* returns.
search_paths ==
  /\ upc = "paths"
  /\ uSearchPaths' = getSearchPaths(uProject, uFrontendPaths)
  /\ uIndex' = 1
  /\ upc' = IF uSearchPaths' = <<>> THEN "done" ELSE "spawn"
  /\ UNCHANGED <<notSearch, searchInputs, uUsages, uOrder, uError, uClose,
                 uPromise, uFallback, uLog, uChildren, uHook>>

\* hoverProvider.ts:287-335: searchWithRipgrep makes the promise and spawns
\* rg for the scope; a missing tool gives no process, an error event and a
\* close event.
search_spawn ==
  /\ upc = "spawn"
  /\ \E files \in {FilesInScope(uFiles, uSearchPaths[uIndex])} :
       uOrder' \in Orderings(files)
  /\ uError' = IF uToolMissing THEN "pending" ELSE "none"
  /\ uClose' = "pending"
  /\ uPromise' = [state |-> "pending", value |-> <<>>]
  /\ uFallback' = NoFallback
  /\ uChildren' = IF uToolMissing THEN uChildren ELSE uChildren \cup {uIndex}
  /\ upc' = "waiting"
  /\ UNCHANGED <<notSearch, searchInputs, uSearchPaths, uIndex, uUsages, uLog, uHook>>

\* Promise resolve that leaves the promise as it is.
ResolvePromise_Never(promise, value) == promise

\* Promise resolve: the first call settles the promise, later ones do nothing.
ResolvePromise(promise, value) ==
  IF promise.state = "pending" THEN [state |-> "resolved", value |-> value]
  ELSE promise

\* The scope of the search in progress cannot be read.
ScopeBroken == uSearchPaths[uIndex] \in uBroken

\* The exit code of the child: the errno of a failed spawn, 2 for an error,
\* 0 with matches and 1 without.
ExitCode(stdout) ==
  IF uToolMissing THEN 0 - 2
  ELSE IF ScopeBroken THEN 2
  ELSE IF \E k \in 1..Len(stdout) : stdout[k].type = "match" THEN 0
  ELSE 1

\* hoverProvider.ts:337-366, every exit code taken for a success.
CloseResult_AnyCode(code, stdout) == ParseRipgrep(stdout)

\* hoverProvider.ts:337-366: what the close handler resolves the promise with.
CloseResult(code, stdout) ==
  IF code # 0 /\ code # 1 THEN <<>> ELSE ParseRipgrep(stdout)

\* hoverProvider.ts:331-335: the error event starts fallbackSearch; the files
\* stay as they are during a search, so what it will find is known.
deliver_error ==
  /\ upc = "waiting"
  /\ uError = "pending"
  /\ uError' = "delivered"
  /\ uFallback' = [state |-> "running",
                   results |-> fallbackSearch(uOrder, escapeDots(uApiPath),
                                              ScopeBroken)]
  /\ UNCHANGED <<notSearch, searchInputs, uSearchPaths, uIndex, uUsages, uOrder,
                 uClose, uPromise, uLog, uChildren, uHook, upc>>

\* hoverProvider.ts:337-366: the close event.
deliver_close ==
  /\ upc = "waiting"
  /\ uClose = "pending"
  /\ uClose' = "delivered"
  /\ LET stdout == IF uToolMissing THEN <<>>
                   ELSE RgStdout(uOrder, escapeDots(uApiPath))
     IN uPromise' = ResolvePromise(uPromise, CloseResult(ExitCode(stdout), stdout))
  /\ uChildren' = uChildren \ {uIndex}
  /\ UNCHANGED <<notSearch, searchInputs, uSearchPaths, uIndex, uUsages, uOrder,
                 uError, uFallback, uLog, uHook, upc>>

\* hoverProvider.ts:334 and 373-416: fallbackSearch ends and hands its
\* results to resolve.
fallback_finish ==
  /\ upc = "waiting"
  /\ uFallback.state = "running"
  /\ uFallback' = [uFallback EXCEPT !.state = "finished"]
  /\ uPromise' = ResolvePromise(uPromise, uFallback.results)
  /\ UNCHANGED <<notSearch, searchInputs, uSearchPaths, uIndex, uUsages, uOrder,
                 uError, uClose, uLog, uChildren, uHook, upc>>

\* hoverProvider.ts:240-254, a usage already in the list left out.
AddUsages_Dedup(usages, new) ==
  usages \o SelectSeq(new, LAMBDA u : \A k \in 1..Len(usages) : usages[k] # u)

\* hoverProvider.ts:240-254: usages.push for every result, in order.
AddUsages(usages, new) == usages \o new

\* hoverProvider.ts:234, going on without the promise being settled.
Settled_Pending(promise) == promise.state # "none"

\* hoverProvider.ts:234: the await ends when the promise is settled.
Settled(promise) == promise.state = "resolved"

\* hoverProvider.ts:232-265: the await of line 234 is over: the results of
\* the scope become usages and the next scope is searched, or the search
\* returns.
search_resume ==
  /\ upc = "waiting"
  /\ Settled(uPromise)
  /\ uUsages' = AddUsages(uUsages, UsagesOf(uPromise.value, uApiPath))
  /\ uLog' = Append(uLog, [scope |-> uSearchPaths[uIndex],
                           errored |-> uError # "none",
                           broken |-> ScopeBroken,
                           order |-> uOrder,
                           used |-> uPromise.value])
  /\ uIndex' = uIndex + 1
  /\ upc' = IF uIndex < Len(uSearchPaths) THEN "spawn" ELSE "done"
  /\ uOrder' = <<>>
  /\ uError' = "none"
  /\ uClose' = "none"
  /\ uPromise' = NoPromise
  /\ uFallback' = NoFallback
  /\ UNCHANGED <<notSearch, searchInputs, uSearchPaths, uHook, uChildren>>

SearchNext ==
  \/ ClassifyHook \/ search_start \/ search_paths \/ search_spawn
  \/ deliver_error \/ deliver_close \/ fallback_finish \/ search_resume

(***************************************************************************)
(* Requests for usages: ConvexReferenceProvider.provideReferences and      *)
(* findConvexUsagesCommand (hoverProvider.ts:427-558)                      *)
(***************************************************************************)
\* Nothing returned, nothing shown yet.
NoOutcome == [returned |-> "pending", count |-> 0, shown |-> {}]

\* A request with a workspace to search: the scopes lib and app, rg present
\* or not, a project or none.  searchForUsages has not been called.
RequestInit ==
  /\ rpc = "idle"
  /\ rKind \in {"provider", "command"}
  /\ rTarget \in {"noEditor", "noDefinition", "definition"}
  /\ rKind = "provider" => rTarget # "noEditor"
  /\ rInclude \in BOOLEAN
  /\ rKind = "command" => ~rInclude
  /\ rToken = FALSE
  /\ rCancelAt = "never"
  /\ rOutcome = NoOutcome
  /\ upc = "off"
  /\ uLine = NoStr
  /\ uHook = NoHook
  /\ uSearchPaths = <<>>
  /\ uIndex = 0
  /\ uUsages = <<>>
  /\ uOrder = <<>>
  /\ uError = "none"
  /\ uClose = "none"
  /\ uPromise = NoPromise
  /\ uFallback = NoFallback
  /\ uLog = <<>>
  /\ uChildren = {}
  /\ uApiPath = S_api_a_f
  /\ uProject \in {SearchProject, NotFound}
  /\ uFrontendPaths = <<S_lib, S_app>>
  /\ uFiles \in {w \in Workspaces : \A f \in w : f.path = FileP => f.lines = <<U_hook>>}
  /\ uToolMissing \in BOOLEAN
  /\ uBroken = {}

\* token.isCancellationRequested, never seen as raised.
isCancellationRequested_Never(token) == FALSE

\* hoverProvider.ts:442, 452, 522  token.isCancellationRequested
isCancellationRequested(token) == token

\* The user or the editor cancels: the provider's token exists from the call
\* on, the command's token only inside the withProgress callback (line 515).
Cancel ==
  /\ ~rToken
  /\ \/ rKind = "provider" /\ rpc # "done"
     \/ rKind = "command" /\ rpc = "searching"
  /\ rToken' = TRUE
  /\ rCancelAt' = IF upc = "off" THEN "before"
                  ELSE IF upc = "done" THEN "after" ELSE "during"
  /\ UNCHANGED <<cacheVars, eventVars, locVars, codecVars, scanVars, findVars,
                 searchVars, rKind, rTarget, rInclude, rOutcome, rpc>>

\* hoverProvider.ts:434-437 and 490-500: the request starts; without an
\* active editor the command warns and returns, otherwise
\* findConvexFunctionAtPosition is awaited.
request_start ==
  /\ rpc = "idle"
  /\ IF rTarget = "noEditor"
     THEN /\ rpc' = "done"
          /\ rOutcome' = [returned |-> "void", count |-> 0, shown |-> {"warning"}]
     ELSE /\ rpc' = "finding"
          /\ rOutcome' = rOutcome
  /\ UNCHANGED <<cacheVars, eventVars, locVars, codecVars, scanVars, findVars,
                 searchVars, rKind, rTarget, rInclude, rToken, rCancelAt>>

\* hoverProvider.ts:438-450 and 502-520: findConvexFunctionAtPosition has
\* answered; with a definition and (the provider) the token not raised,
\* searchForUsages is called.
request_found ==
  /\ rpc = "finding"
  /\ IF rTarget = "noDefinition"
     THEN /\ rpc' = "done"
          /\ rOutcome' = IF rKind = "provider"
                         THEN [returned |-> "null", count |-> 0, shown |-> {}]
                         ELSE [returned |-> "void", count |-> 0, shown |-> {"warning"}]
          /\ upc' = upc
     ELSE IF rKind = "provider" /\ isCancellationRequested(rToken)
     THEN /\ rpc' = "done"
          /\ rOutcome' = [returned |-> "null", count |-> 0, shown |-> {}]
          /\ upc' = upc
     ELSE /\ rpc' = "searching"
          /\ rOutcome' = rOutcome
          /\ upc' = "idle"
  /\ UNCHANGED <<cacheVars, eventVars, locVars, codecVars, scanVars, findVars,
                 searchInputs, uSearchPaths, uIndex, uUsages, uOrder, uError,
                 uClose, uPromise, uFallback, uLog, uChildren, uHook,
                 rKind, rTarget, rInclude, rToken, rCancelAt>>

\* hoverProvider.ts:452-482 and 522-556: searchForUsages has returned.
request_finish ==
  /\ rpc = "searching"
  /\ upc = "done"
  /\ rpc' = "done"
  /\ rOutcome' =
       IF isCancellationRequested(rToken)
       THEN [returned |-> IF rKind = "provider" THEN "null" ELSE "void",
             count |-> 0, shown |-> {}]
       ELSE IF rKind = "provider"
       THEN [returned |-> "locations",
             count |-> Len(uUsages) + (IF rInclude THEN 1 ELSE 0), shown |-> {}]
       ELSE IF Len(uUsages) = 0
       THEN [returned |-> "void", count |-> 0, shown |-> {"noUsagesMessage"}]
       ELSE [returned |-> "void", count |-> Len(uUsages),
             shown |-> {"references", "foundMessage"}]
  /\ UNCHANGED <<cacheVars, eventVars, locVars, codecVars, scanVars, findVars,
                 searchVars, rKind, rTarget, rInclude, rToken, rCancelAt>>

RequestNext ==
  \/ request_start \/ request_found \/ request_finish \/ Cancel
  \/ search_start \/ search_paths \/ search_spawn
  \/ deliver_error \/ deliver_close \/ fallback_finish \/ search_resume

\* C23: a request whose token was raised before its usage search had
\* completed yields no result: provideReferences returns null, and
\* findConvexUsagesCommand shows neither references nor a result message;
\* and when the token was raised before the search had started,
\* searchForUsages is not called.
C23_Cancellation ==
  /\ rCancelAt \in {"before", "during"} =>
       /\ rOutcome.returned \in {"pending", "null", "void"}
       /\ rKind = "provider" /\ rpc = "done" => rOutcome.returned = "null"
       /\ rOutcome.shown \cap {"references", "foundMessage", "noUsagesMessage"} = {}
  /\ rCancelAt = "before" => upc = "off"

\* The token was raised while rg was running for the second scope; the search
\* went on to its end with usages found, and the provider returned null.
C23_Witness ==
  /\ rKind = "provider"
  /\ rCancelAt = "during"
  /\ rpc = "done"
  /\ upc = "done"
  /\ Len(uUsages) > 0
  /\ rOutcome.returned = "null"

(***************************************************************************)
(* Claims about the usage search                                           *)
(***************************************************************************)
\* The identifier occurs in the line at column c (from 1).
OccursAt(line, c) ==
  /\ c + Len(uApiPath) - 1 <= Len(line)
  /\ \A k \in 1..Len(uApiPath) : line[c + k - 1] = uApiPath[k]

\* The files of scope i, and of all scopes.
ScopeFiles(i) == FilesInScope(uFiles, uSearchPaths[i])
AllScopeFiles == UNION {ScopeFiles(i) : i \in 1..Len(uSearchPaths)}

\* No file is in two scopes.
ScopesDisjoint ==
  \A i, j \in 1..Len(uSearchPaths) : i # j => ScopeFiles(i) \cap ScopeFiles(j) = {}

\* The usages reported for a place: file, line and column from 0.
UsagesAt(path, line, column) ==
  {k \in 1..Len(uUsages) : /\ uUsages[k].filePath = path
                           /\ uUsages[k].line = line
                           /\ uUsages[k].column = column}

\* C16: for every line of a scope file with an occurrence of the searched
\* identifier, searchForUsages reports exactly one usage per occurrence, with
\* the line and the column of the occurrence counted from 0, and it reports
\* nothing where there is no occurrence (rg present, every scope readable,
\* no file in two scopes).
C16_OneUsagePerOccurrence ==
  (/\ upc = "done" /\ uProject.found /\ ~uToolMissing /\ ScopesDisjoint
   /\ \A i \in 1..Len(uSearchPaths) : uSearchPaths[i] \notin uBroken) =>
     /\ \A f \in AllScopeFiles : \A n \in 1..Len(f.lines) :
          \A c \in 1..(Len(f.lines[n]) + 1) :
            Cardinality(UsagesAt(f.path, n - 1, c - 1)) =
              IF OccursAt(f.lines[n], c) THEN 1 ELSE 0
     /\ \A k \in 1..Len(uUsages) :
          \E f \in AllScopeFiles : f.path = uUsages[k].filePath

\* The places of a line where a name of the list stands, followed by an
\* opening parenthesis after any white space: column and number of the name.
HookPlaces(line) ==
  {pl \in (1..Len(line)) \X (1..Len(HookNames)) :
     LET after == pl[1] + Len(HookNames[pl[2]])
     IN /\ StartsWith(SubSeq(line, pl[1], Len(line)), HookNames[pl[2]])
        /\ \E j \in after..Len(line) :
             /\ line[j] = "("
             /\ \A m \in after..(j - 1) : line[m] \in {" ", "\t", "\n"}}

\* The leftmost of them, or nothing.
LeftmostHook(line) ==
  IF HookPlaces(line) = {} THEN NoHook
  ELSE LET pl == CHOOSE p \in HookPlaces(line) : \A q \in HookPlaces(line) : p[1] <= q[1]
       IN HookNames[pl[2]]

\* C17: hookUsed is the leftmost name of the list useQuery, useMutation,
\* useAction, usePaginatedQuery, useConvexQuery, useConvexMutation,
\* ctx.runQuery, ctx.runMutation, ctx.runAction on the line that is followed
\* by an opening parenthesis, and it is unset when the line has none; for a
\* line classified alone and for every usage record.
C17_LeftmostHook ==
  /\ upc = "classified" => uHook = LeftmostHook(uLine)
  /\ \A k \in 1..Len(uUsages) : uUsages[k].hookUsed = LeftmostHook(uUsages[k].lineText)

\* On the line useQuery;useMutation( the first name has no parenthesis after
\* it: the hook is useMutation.
C17_Witness ==
  /\ upc = "classified"
  /\ uLine = H_useQuery \o <<";">> \o H_useMutation \o <<"(">>
  /\ uHook = H_useMutation

\* The places (file, line, column) of a sequence of results or usages.
PlacesOf(records) ==
  [k \in 1..Len(records) |->
     <<records[k].filePath, records[k].line, records[k].column>>]

\* What the scopes searched so far were answered with, one after the other.
RECURSIVE LoggedPlaces(_)
LoggedPlaces(log) ==
  IF log = <<>> THEN <<>>
  ELSE LoggedPlaces(SubSeq(log, 1, Len(log) - 1)) \o PlacesOf(log[Len(log)].used)

\* C18: the usages are the results of the scopes in the order of the scope
\* list, each scope's results in the order its matcher gave them; nothing is
\* reordered or left out as a duplicate.
C18_ScopeOrder ==
  /\ PlacesOf(uUsages) = LoggedPlaces(uLog)
  /\ \A i \in 1..Len(uLog) : uLog[i].scope = uSearchPaths[i]
  /\ (upc = "done" /\ uProject.found) => Len(uLog) = Len(uSearchPaths)

\* The scopes app and app/sub overlap: the usage of app/sub/q.ts was found
\* through both and is reported twice, after the usage of the first scope.
C18_Witness ==
  /\ upc = "done"
  /\ ~uToolMissing
  /\ Len(uSearchPaths) = 2
  /\ LiesUnder(uSearchPaths[2], uSearchPaths[1])
  /\ \E j, k \in 1..Len(uUsages) :
       j < k /\ uUsages[j] = uUsages[k] /\ uUsages[j].filePath = FileQ

\* Line n of file f holds the identifier.
HasOccurrence(f, n) ==
  n <= Len(f.lines) /\ \E c \in 1..Len(f.lines[n]) : OccursAt(f.lines[n], c)

\* C19: a scope whose search fails (rg exits with an error code, or the
\* scope cannot be read) gives no usages; the usages of the scopes before it
\* are kept, the scopes after it are searched and answered, and the search
\* goes on to its end.
C19_ScopeFailureIsolated ==
  /\ \A i \in 1..Len(uLog) :
       /\ uLog[i].broken => uLog[i].used = <<>>
       /\ (~uLog[i].broken /\ ~uLog[i].errored) =>
            Len(uLog[i].used) =
              Cardinality({pl \in (ScopeFiles(i) \X (1..MaxFileLines)) :
                             HasOccurrence(pl[1], pl[2])})
  /\ Len(uUsages) >= (IF uLog = <<>> THEN 0 ELSE Len(uLog[1].used))
  /\ PlacesOf(uUsages) = LoggedPlaces(uLog)
  /\ (upc = "done" /\ uProject.found) => Len(uLog) = Len(uSearchPaths)
  /\ upc = "waiting" =>
       \/ uPromise.state = "resolved"
       \/ uClose = "pending"
       \/ uFallback.state = "running"
       \/ uError = "pending"

\* The scope lib could not be read and rg is there: lib gave nothing, and
\* the scope app after it gave its usages.
C19_Witness ==
  /\ upc = "done"
  /\ ~uToolMissing
  /\ Len(uLog) = 2
  /\ uLog[1].broken /\ uLog[1].used = <<>>
  /\ ~uLog[2].broken /\ uLog[2].used # <<>>
  /\ uUsages # <<>>

\* C20: when spawning rg for a scope gave the error event, the result used
\* for the scope is the result of fallbackSearch, in whatever order the
\* error and the close event arrive.
C20_FallbackUsed ==
  \A i \in 1..Len(uLog) :
    uLog[i].errored =>
      uLog[i].used = fallbackSearch(uLog[i].order, escapeDots(uApiPath), uLog[i].broken)

\* The matches of a sequence of results, as a set.
Matches(results) == {results[k] : k \in 1..Len(results)}

\* What the external matcher and what the in-process scan report for the
\* files of logged scope i, gone through in the same order.
ExternalMatches(i) ==
  Matches(ParseRipgrep(RgStdout(uLog[i].order, escapeDots(uApiPath))))
FallbackMatches(i) ==
  Matches(fallbackSearch(uLog[i].order, escapeDots(uApiPath), FALSE))

\* C21: for every scope searched, the in-process scan of the scope's files
\* gives the same set of matches (file, line, column, trimmed line text) as
\* the output of the external matcher for the same files and pattern gives,
\* lines with more than one occurrence included.
C21_FallbackEquivalence ==
  \A i \in 1..Len(uLog) :
    ~uLog[i].broken => FallbackMatches(i) = ExternalMatches(i)

\* C22: within one search at most one rg process runs at any time, and rg
\* is spawned for a scope only when no process runs and the invocations for
\* all the scopes before it have settled and been taken.
C22_SequentialScopes ==
  /\ Cardinality(uChildren) <= 1
  /\ uChildren \subseteq {uIndex}
  /\ upc = "spawn" => (uChildren = {} /\ Len(uLog) = uIndex - 1)
  /\ upc = "waiting" => Len(uLog) = uIndex - 1

\* The process of the second scope runs; the first scope has been answered.
C22_Witness ==
  /\ upc = "waiting"
  /\ uIndex = 2
  /\ uChildren = {2}
  /\ Len(uLog) = 1
  /\ uPromise.state = "pending"

\* The search is blocked: it waits for the promise of the scope's invocation.
Blocked == upc = "waiting" /\ uPromise.state = "pending"

\* The child of the scope being searched has emitted close or error.
Emitted == upc = "waiting" /\ (uClose = "delivered" \/ uError = "delivered")

\* searchForUsages has returned (or the line has been classified).
Returned == upc \in {"done", "classified"}

\* The search waits for a child that has emitted neither close nor error.
Silent == upc = "waiting" /\ ~Emitted

\* Every child emits close or error at some time: none is silent for ever.
EveryChildEmits == []<>(~Silent)

\* C25: once the child of a scope has emitted close or error, the promise of
\* the scope's invocation is resolved (at once by close, after the
\* in-process scan by error) and the search goes on; a search is blocked only
\* while no close has come and either no error has come or the in-process
\* scan still runs; and if every child emits close or error the search
\* returns.
C25_Termination ==
  /\ [](Blocked => (uClose # "delivered" /\ uFallback.state # "finished"))
  /\ (Emitted ~> ~Blocked)
  /\ (EveryChildEmits => <>Returned)

\* The tool is missing, only the error event has come and the in-process
\* scan has resolved the promise; the search has taken a scope before.
C25_Witness ==
  /\ upc = "waiting"
  /\ uToolMissing
  /\ uError = "delivered"
  /\ uClose = "pending"
  /\ uFallback.state = "finished"
  /\ uPromise.state = "resolved"
  /\ Len(uLog) = 1

\* The characters with which a name goes on.
IdentifierChars == WordChars \cup {"$"}

\* The identifier stands at column c (from 1) of the line, and the name does
\* not go on after it.
ExactlyAt(line, c) ==
  /\ OccursAt(line, c)
  /\ c + Len(uApiPath) <= Len(line) => line[c + Len(uApiPath)] \notin IdentifierChars

\* C29: every usage record of searchForUsages marks an occurrence of exactly
\* the searched identifier: at its line and column the identifier stands in
\* the file and is not the beginning of a longer identifier, so a file that
\* holds only api.a.fg gives no usage of api.a.f.
C29_ExactIdentifier ==
  \A k \in 1..Len(uUsages) :
    \E f \in uFiles :
      /\ f.path = uUsages[k].filePath
      /\ uUsages[k].line + 1 <= Len(f.lines)
      /\ ExactlyAt(f.lines[uUsages[k].line + 1], uUsages[k].column + 1)

(***************************************************************************)
(* Specifications: one per component; the other components stay off.       *)
(***************************************************************************)
LocOff ==
  /\ fsFiles = {}
  /\ convexPath = <<>>
  /\ workspaceFolders = <<>>
  /\ dpc = "off"
  /\ dres = NotFound
  /\ seen = NothingSeen

CacheOff ==
  /\ cachedProjectInfo = Null
  /\ cacheTimestamp = 0
  /\ clock = 0
  /\ ticks = 0
  /\ disk = NoDir
  /\ calls = <<>>
  /\ detectCalls = 0
  /\ lastScan = NoScan
  /\ cleared = "no"

CodecOff ==
  /\ kProject = NotFound
  /\ kExisting = {}
  /\ kFile = NoStr
  /\ kFn = NoStr
  /\ kIdent = NoStr
  /\ kParsed = NoParse
  /\ kResolved = NoTarget
  /\ kpc = "off"

ScanOff ==
  /\ sProject = NotFound
  /\ sFile = NoStr
  /\ sContent = <<>>
  /\ sBinding = [wrapper |-> NoStr, generic |-> NoStr]
  /\ sCustom = <<>>
  /\ sReadable = FALSE
  /\ sLocalProject = NotFound
  /\ sChanged = FALSE
  /\ sMatch = NoMatch
  /\ sFunctions = NoFunctions
  /\ sWrapper = NoStr
  /\ sKind = "none"
  /\ spc = "off"

FindOff ==
  /\ fProject = NotFound
  /\ fFile = NoStr
  /\ fLines = <<>>
  /\ fPosition = [line |-> 0, character |-> 0]
  /\ fMatch = NoMatch
  /\ fFunctions = NoFunctions
  /\ fResult = NoRecord
  /\ fChanged = FALSE
  /\ fpc = "off"

SearchOff ==
  /\ uProject = NotFound
  /\ uFrontendPaths = <<>>
  /\ uFiles = {}
  /\ uApiPath = NoStr
  /\ uToolMissing = FALSE
  /\ uBroken = {}
  /\ uLine = NoStr
  /\ uHook = NoHook
  /\ uSearchPaths = <<>>
  /\ uIndex = 0
  /\ uUsages = <<>>
  /\ uOrder = <<>>
  /\ uError = "none"
  /\ uClose = "none"
  /\ uPromise = NoPromise
  /\ uFallback = NoFallback
  /\ uLog = <<>>
  /\ uChildren = {}
  /\ upc = "off"

RequestOff ==
  /\ rKind = "none"
  /\ rTarget = "none"
  /\ rInclude = FALSE
  /\ rToken = FALSE
  /\ rCancelAt = "never"
  /\ rOutcome = [returned |-> "pending", count |-> 0, shown |-> {}]
  /\ rpc = "off"

EventOff ==
  /\ watched = NoDir
  /\ eventAt = -1

InitCache == CacheInit /\ RequestOff /\ EventOff /\ LocOff /\ CodecOff /\ ScanOff /\ FindOff /\ SearchOff
SpecCache == InitCache /\ [][CacheNext]_vars

\* The cache with the listeners of activate.
InitEvents == CacheInit /\ RequestOff /\ EventInit /\ LocOff /\ CodecOff /\ ScanOff /\ FindOff /\ SearchOff
SpecEvents == InitEvents /\ [][EventNext]_vars

\* A request for the usages of a definition, with its search.
InitRequest ==
  RequestInit /\ CacheOff /\ EventOff /\ LocOff /\ CodecOff /\ ScanOff /\ FindOff
SpecRequest == InitRequest /\ [][RequestNext]_vars

InitLoc == LocInit /\ RequestOff /\ EventOff /\ CacheOff /\ CodecOff /\ ScanOff /\ FindOff /\ SearchOff
SpecLoc == InitLoc /\ [][LocNext]_vars

InitCodec == CodecInit /\ RequestOff /\ EventOff /\ CacheOff /\ LocOff /\ ScanOff /\ FindOff /\ SearchOff
SpecCodec == InitCodec /\ [][CodecNext]_vars

\* Either a wrapper name to classify or a file to scan, or a document and a
\* cursor to look up.
InitScan ==
  /\ CacheOff /\ EventOff /\ LocOff /\ CodecOff /\ SearchOff /\ RequestOff
  /\ \/ ScanInit /\ FindOff
     \/ FindInit /\ ScanOff
SpecScan == InitScan /\ [][ScanNext]_vars

InitSearch ==
  SearchInit /\ RequestOff /\ EventOff /\ CacheOff /\ LocOff /\ CodecOff /\ ScanOff /\ FindOff
SpecSearch == InitSearch /\ [][SearchNext]_vars

\* The steps the extension host takes by itself are taken at some time: its
\* own code after an await, and the in-process scan; nothing is assumed of
\* the events of a child.  The searches started are those of one workspace
\* with the scopes lib and app, with rg or without, lib unreadable or not.
InitSearchLive ==
  /\ InitSearch
  /\ uLine \in {NoStr, S_x, H_useQuery \o <<"(">>}
  /\ uFrontendPaths \in {<<>>, <<S_lib, S_app>>}
  /\ uLine = NoStr => uFrontendPaths = <<S_lib, S_app>>
  /\ \A f \in uFiles : f.path # FileR => f.lines \in {<<U_hook>>, <<U_two>>}
  /\ uBroken # {AbsPath(<<S_w, S_app>>)}

SpecSearchLive ==
  /\ InitSearchLive
  /\ [][SearchNext]_vars
  /\ WF_vars(ClassifyHook)
  /\ WF_vars(search_start)
  /\ WF_vars(search_paths)
  /\ WF_vars(search_spawn)
  /\ WF_vars(fallback_finish)
  /\ WF_vars(search_resume)

====
